---- MODULE Spec2Model ----
(***************************************************************************)
(* A model of the SmartSec-Eval scripts:                                   *)
(*   scripts/security_score.py   report parsers, norm_sev, aggregate_scores *)
(*   scripts/retest_manager.py   classify_issue, retest plan and executor   *)
(*   scripts/aggregate_metrics.py  timing tables, coverage, resilience tag  *)
(* Python strings that the code inspects character by character are        *)
(* sequences of one-character strings; JSON values are tagged records.     *)
(***************************************************************************)
EXTENDS Integers, Sequences, FiniteSets, TLC

VARIABLES
    nsIn, nsOut,            \* norm_sev: argument and result
    ciText, ciOut, ciFrags, \* classify_issue: argument, result, fragments in the argument
    pTool, pFile, pOut,     \* one report parser: which one, the file it is given, its result
    \* security_score.main
    spc,                    \* position in main
    weights,                \* load_weights' result: (severity, weight) pairs in dict order
    frames,                 \* the frames of the reports parsed so far
    all_issues,             \* their concatenation
    scores,                 \* the score table
    scoresFile,             \* security_scores.csv as written by this run
    sExit,                  \* main's return value
    \* retest_manager.main
    rpc,                    \* position in main
    rPaths,                 \* the files glob returned, in the order it returned them
    rIdx,                   \* index of the running for loop
    summary,                \* analyze_reports' result: bucket -> file names
    plan,                   \* the retest plan file
    cmds, rcodes,           \* main's two lists
    launched,               \* the launches of subprocess.run so far: command and outcome
    summaryFile,            \* the retest summary file
    rExit,                  \* main's return value
    \* aggregate_metrics.parse_tte_generic
    tteTable,               \* the CSV table it is given
    tteField,               \* the duration field it reads
    tteOut,                 \* its result
    \* aggregate_metrics.main
    mpc,                    \* position in main
    latest_baseline,        \* the four files located: None, or what the path names
    latest_improved,
    baseline, improved,     \* the two statistics dicts
    latest_lcov, latest_cov,\* the coverage trace and the text summary located
    coverage_pct,           \* the coverage resolved
    csvRows,                \* the rows written to metrics_summary.csv
    tag,                    \* the resilience tag
    mExit                   \* main's return value

normVars == <<nsIn, nsOut>>
classifyVars == <<ciText, ciOut, ciFrags>>
parseVars == <<pTool, pFile, pOut>>
scoreVars == <<spc, weights, frames, all_issues, scores, scoresFile, sExit>>
retestVars == <<rpc, rPaths, rIdx, summary, plan, cmds, rcodes, launched, summaryFile, rExit>>
tteVars == <<tteTable, tteField, tteOut>>
metricsVars == <<mpc, latest_baseline, latest_improved, baseline, improved, latest_lcov, latest_cov, coverage_pct, csvRows, tag, mExit>>
vars == <<normVars, classifyVars, parseVars, scoreVars, retestVars, tteVars, metricsVars>>
\* what each part of the model leaves alone
notNorm == <<classifyVars, parseVars, scoreVars, retestVars, tteVars, metricsVars>>
notClassify == <<normVars, parseVars, scoreVars, retestVars, tteVars, metricsVars>>
notParse == <<normVars, classifyVars, scoreVars, retestVars, tteVars, metricsVars>>
notScore == <<normVars, classifyVars, parseVars, retestVars, tteVars, metricsVars>>
notRetest == <<normVars, classifyVars, parseVars, scoreVars, tteVars, metricsVars>>
notTte == <<normVars, classifyVars, parseVars, scoreVars, retestVars, metricsVars>>
notMetrics == <<normVars, classifyVars, parseVars, scoreVars, retestVars, tteVars>>

(***************************************************************************)
(* Bounds of the model.                                                    *)
(***************************************************************************)
\* longest run of whitespace put before / after a severity token
MaxPad == 1
\* number of fragments a triage text is assembled from
MaxFrags == 2
\* number of *.json files under vuln_reports
MaxFiles == 2
\* entries of one list or mapping of a report (detectors, elements, issues, tests)
MaxItems == 2
\* report files one scoring run parses
MaxReports == 2
\* entries of the weights file
MaxWeightEntries == 2
\* data rows of one timing table
MaxRows == 2
\* files matching one pattern of the metrics merge
MaxMatches == 2

(***************************************************************************)
(* Python str helpers (ASCII).                                             *)
(***************************************************************************)
UpperChars == <<"A","B","C","D","E","F","G","H","I","J","K","L","M",
                "N","O","P","Q","R","S","T","U","V","W","X","Y","Z">>
LowerChars == <<"a","b","c","d","e","f","g","h","i","j","k","l","m",
                "n","o","p","q","r","s","t","u","v","w","x","y","z">>
Whitespace == {" ", "\t", "\n"}

LowerChar(c) ==
    IF \E i \in DOMAIN UpperChars : UpperChars[i] = c
    THEN LowerChars[CHOOSE i \in DOMAIN UpperChars : UpperChars[i] = c]
    ELSE c

UpperChar(c) ==
    IF \E i \in DOMAIN LowerChars : LowerChars[i] = c
    THEN UpperChars[CHOOSE i \in DOMAIN LowerChars : LowerChars[i] = c]
    ELSE c

IsLetter(c) ==
    \E i \in DOMAIN LowerChars : LowerChars[i] = c \/ UpperChars[i] = c

\* str.lower()
Lower(s) == [i \in 1..Len(s) |-> LowerChar(s[i])]

\* str.upper()
Upper(s) == [i \in 1..Len(s) |-> UpperChar(s[i])]

\* str.capitalize(): first character upper-cased, all the others lower-cased
Capitalize(s) ==
    [i \in 1..Len(s) |-> IF i = 1 THEN UpperChar(s[i]) ELSE LowerChar(s[i])]

\* str.title(): a letter that follows a non-letter is upper-cased, the others lower-cased
Title(s) ==
    [i \in 1..Len(s) |->
        IF i = 1 \/ ~IsLetter(s[i - 1]) THEN UpperChar(s[i]) ELSE LowerChar(s[i])]

\* str.strip(): leading and trailing whitespace removed
Strip(s) ==
    LET keep == {i \in 1..Len(s) : s[i] \notin Whitespace}
    IN  IF keep = {} THEN <<>>
        ELSE LET lo == CHOOSE i \in keep : \A j \in keep : i <= j
                 hi == CHOOSE i \in keep : \A j \in keep : j <= i
             IN  SubSeq(s, lo, hi)

\* `k in s` for two strings
Contains(s, k) ==
    \E i \in 0..(Len(s) - Len(k)) : \A j \in 1..Len(k) : s[i + j] = k[j]

(***************************************************************************)
(* JSON values as json.load returns them.                                  *)
(***************************************************************************)
JNull == [t |-> "null"]
JStr(s) == [t |-> "str", s |-> s]
JInt(n) == [t |-> "int", n |-> n]
JList(items) == [t |-> "list", items |-> items]
\* a dict: its (key, value) pairs in insertion order, keys distinct
JObj(kv) == [t |-> "obj", kv |-> kv]
\* content json.load rejects
JInvalid == [t |-> "invalid"]
\* no value (yet)
None == [t |-> "none"]

\* Python truthiness: None, 0, "", [] and {} are falsy
Truthy(j) ==
    CASE j.t = "null" -> FALSE
      [] j.t = "int"  -> j.n # 0
      [] j.t = "str"  -> j.s # <<>>
      [] j.t = "list" -> j.items # <<>>
      [] j.t = "obj"  -> j.kv # <<>>
      [] OTHER        -> TRUE

\* a or b
Or(a, b) == IF Truthy(a) THEN a ELSE b

(***************************************************************************)
(* security_score.py: norm_sev                                             *)
(***************************************************************************)
sUnknown == <<"U","n","k","n","o","w","n">>
sCritical == <<"C","r","i","t","i","c","a","l">>
sHigh == <<"H","i","g","h">>
sMedium == <<"M","e","d","i","u","m">>
sLow == <<"L","o","w">>
sInfo == <<"I","n","f","o">>
sInformational == <<"I","n","f","o","r","m","a","t","i","o","n","a","l">>
sWarning == <<"W","a","r","n","i","n","g">>
w_critical == <<"c","r","i","t","i","c","a","l">>
w_very_high == <<"v","e","r","y"," ","h","i","g","h">>
w_high == <<"h","i","g","h">>
w_medium == <<"m","e","d","i","u","m">>
w_low == <<"l","o","w">>
w_info == <<"i","n","f","o">>
w_informational == <<"i","n","f","o","r","m","a","t","i","o","n","a","l">>
w_warning == <<"w","a","r","n","i","n","g">>
\* the taxonomy the specification names
Canonical == { sCritical, sHigh, sMedium, sLow, sInfo, sUnknown }

\* the result of a call: a value, or an exception that leaves the function
Ret(v) == [err |-> FALSE, v |-> v]
Raise == [err |-> TRUE]

\* norm_sev with the lower() of line 67 left out
norm_sev_nolower(s) ==
    IF ~Truthy(s) THEN Ret(sUnknown)
    ELSE IF s.t # "str" THEN Raise
    ELSE LET x == Strip(s.s)
         IN  IF x \in {w_critical, w_very_high} THEN Ret(sCritical)
             ELSE IF x \in {w_high} THEN Ret(sHigh)
             ELSE IF x \in {w_medium} THEN Ret(sMedium)
             ELSE IF x \in {w_low, w_info, w_informational, w_warning}
                  THEN Ret(Capitalize(x))
             ELSE Ret(Capitalize(x))

\* norm_sev(s): `not s` is true of None and of every falsy value; a truthy value
\* that is no str has no strip() and raises AttributeError
norm_sev(s) ==
    IF ~Truthy(s) THEN Ret(sUnknown)
    ELSE IF s.t # "str" THEN Raise
    ELSE LET x == Lower(Strip(s.s))
         IN  IF x \in {w_critical, w_very_high} THEN Ret(sCritical)
             ELSE IF x \in {w_high} THEN Ret(sHigh)
             ELSE IF x \in {w_medium} THEN Ret(sMedium)
             ELSE IF x \in {w_low, w_info, w_informational, w_warning}
                  THEN Ret(Capitalize(x))
             ELSE Ret(Capitalize(x))

(***************************************************************************)
(* dict and list helpers                                                   *)
(***************************************************************************)
\* key in d
HasKey(d, k) == \E i \in DOMAIN d.kv : d.kv[i][1] = k
\* d.get(k, default)
GetD(d, k, default) ==
    IF HasKey(d, k) THEN d.kv[CHOOSE i \in DOMAIN d.kv : d.kv[i][1] = k][2] ELSE default
\* d.get(k)
Get(d, k) == GetD(d, k, JNull)
\* a str that was a key of a dict
JKey(k) == [t |-> "key", k |-> k]

RECURSIVE SeqsUpTo(_, _)
\* all sequences over S of length 0..n
SeqsUpTo(S, n) ==
    IF n = 0 THEN { <<>> }
    ELSE LET shorter == SeqsUpTo(S, n - 1)
         IN  shorter \cup { Append(q, x) : q \in shorter, x \in S }

RECURSIVE Flatten(_)
\* the concatenation of a sequence of sequences
Flatten(ss) == IF ss = <<>> THEN <<>> ELSE Head(ss) \o Flatten(Tail(ss))

\* the largest of a non-empty set of positions
MaxOf(S) == CHOOSE i \in S : \A j \in S : j <= i

(***************************************************************************)
(* security_score.py: extract_contract_from_path                           *)
(***************************************************************************)
\* os.path.basename (posix): what follows the last "/"
Basename(path) ==
    LET seps == {i \in 1..Len(path) : path[i] = "/"}
    IN  IF seps = {} THEN path ELSE SubSeq(path, MaxOf(seps) + 1, Len(path))

\* os.path.splitext(base)[0] for a name without "/": cut at the last ".", unless
\* only dots precede it
SplitextRoot(base) ==
    LET dots == {i \in 1..Len(base) : base[i] = "."}
    IN  IF dots = {} THEN base
        ELSE IF \E i \in 1..(MaxOf(dots) - 1) : base[i] # "."
             THEN SubSeq(base, 1, MaxOf(dots) - 1)
             ELSE base

extract_contract_from_path(path) == SplitextRoot(Basename(path))

(***************************************************************************)
(* security_score.py: parse_slither, parse_mythril, parse_echidna          *)
(* A parser returns its rows (without the timestamp column) or raises.     *)
(***************************************************************************)
sSlitherFinding == <<"S","l","i","t","h","e","r"," ","f","i","n","d","i","n","g">>
sMythrilIssue == <<"M","y","t","h","r","i","l"," ","i","s","s","u","e">>
sInvariants == <<"I","n","v","a","r","i","a","n","t","s">>
sPropertyFailed == <<"P","r","o","p","e","r","t","y"," ","f","a","i","l","e","d"," ",
                     "u","n","d","e","r"," ","f","u","z","z","i","n","g">>
sFAIL == <<"F","A","I","L">>
EmptyObj == JObj(<<>>)
EmptyList == JList(<<>>)

Row(tool, contract, issue, sev, desc) ==
    [tool |-> tool, contract |-> contract, issue_type |-> issue, severity |-> sev,
     description |-> desc]

\* the contract of one element with the element-level field tried before the one of
\* the source mapping
ElementContract_element_first(e) ==
    IF e.t # "obj" THEN Raise
    ELSE LET sm == Or(Get(e, "source_mapping"), EmptyObj)
         IN  IF sm.t # "obj" THEN Raise
             ELSE IF Truthy(Get(e, "contract")) THEN Ret(Get(e, "contract"))
             ELSE IF Truthy(Get(sm, "contract")) THEN Ret(Get(sm, "contract"))
             ELSE LET fn == GetD(sm, "filename", JStr(<<>>))
                  IN  IF fn.t # "str" THEN Raise
                      ELSE Ret(Or(JStr(extract_contract_from_path(fn.s)), JStr(sUnknown)))

\* lines 104-109: the contract of one element
ElementContract(e) ==
    IF e.t # "obj" THEN Raise
    ELSE LET sm == Or(Get(e, "source_mapping"), EmptyObj)
         IN  IF sm.t # "obj" THEN Raise
             ELSE IF Truthy(Get(sm, "contract")) THEN Ret(Get(sm, "contract"))
             ELSE IF Truthy(Get(e, "contract")) THEN Ret(Get(e, "contract"))
             ELSE LET fn == GetD(sm, "filename", JStr(<<>>))
                  IN  IF fn.t # "str" THEN Raise
                      ELSE Ret(Or(JStr(extract_contract_from_path(fn.s)), JStr(sUnknown)))

\* the rows of one detector when a detector without elements is passed over
DetectorRows_skip_empty(d) ==
    IF d.t # "obj" THEN Raise
    ELSE LET issue == Or(Or(Get(d, "check"), Get(d, "title")), JStr(sSlitherFinding))
             sev == Or(Or(Get(d, "impact"), Get(d, "severity")), JStr(sUnknown))
             desc == Or(Get(d, "description"), JStr(<<>>))
             elements == Or(Get(d, "elements"), EmptyList)
             nsev == norm_sev(sev)
         IN  IF Truthy(elements)
             THEN IF elements.t # "list" THEN Raise
                  ELSE IF nsev.err
                          \/ \E i \in DOMAIN elements.items : ElementContract(elements.items[i]).err
                       THEN Raise
                       ELSE Ret([i \in DOMAIN elements.items |->
                                   Row("slither", ElementContract(elements.items[i]).v,
                                       issue, nsev.v, desc)])
             ELSE IF nsev.err THEN Raise
                  ELSE Ret(<<>>)

\* lines 97-112: the rows of one detector
DetectorRows(d) ==
    IF d.t # "obj" THEN Raise
    ELSE LET issue == Or(Or(Get(d, "check"), Get(d, "title")), JStr(sSlitherFinding))
             sev == Or(Or(Get(d, "impact"), Get(d, "severity")), JStr(sUnknown))
             desc == Or(Get(d, "description"), JStr(<<>>))
             elements == Or(Get(d, "elements"), EmptyList)
             nsev == norm_sev(sev)
         IN  IF Truthy(elements)
             THEN IF elements.t # "list" THEN Raise
                  ELSE IF nsev.err
                          \/ \E i \in DOMAIN elements.items : ElementContract(elements.items[i]).err
                       THEN Raise
                       ELSE Ret([i \in DOMAIN elements.items |->
                                   Row("slither", ElementContract(elements.items[i]).v,
                                       issue, nsev.v, desc)])
             ELSE IF nsev.err THEN Raise
                  ELSE Ret(<<Row("slither", JStr(sUnknown), issue, nsev.v, desc)>>)

\* parse_slither on what json.load made of the file
parse_slither(data) ==
    IF data.t = "invalid" THEN Ret(<<>>)
    ELSE IF data.t # "obj" THEN Raise
    ELSE LET results == Or(Get(data, "results"), EmptyObj)
         IN  IF results.t # "obj" THEN Raise
             ELSE LET detectors == Or(Get(results, "detectors"), EmptyList)
                  IN  IF detectors.t # "list" THEN Raise
                      ELSE IF \E i \in DOMAIN detectors.items : DetectorRows(detectors.items[i]).err
                           THEN Raise
                           ELSE Ret(Flatten([i \in DOMAIN detectors.items |->
                                                DetectorRows(detectors.items[i]).v]))

\* lines 128-133: the row of one issue
IssueRow(i) ==
    IF i.t # "obj" THEN Raise
    ELSE LET issue == Or(Or(Get(i, "title"), Get(i, "swc-id")), JStr(sMythrilIssue))
             sev == Or(Get(i, "severity"), JStr(sUnknown))
             desc == Or(Get(i, "description"), JStr(<<>>))
             contract == Or(Or(Get(i, "contract"), Get(i, "filename")), JStr(sUnknown))
             nsev == norm_sev(sev)
         IN  IF contract.t # "str" \/ nsev.err THEN Raise
             ELSE Ret(Row("mythril", JStr(extract_contract_from_path(contract.s)),
                          issue, nsev.v, desc))

\* parse_mythril on what json.load made of the file
parse_mythril(data) ==
    IF data.t = "invalid" THEN Ret(<<>>)
    ELSE IF data.t # "obj" THEN Raise
    ELSE LET issues == Or(GetD(data, "issues", EmptyList), EmptyList)
         IN  IF issues.t # "list" THEN Raise
             ELSE IF \E n \in DOMAIN issues.items : IssueRow(issues.items[n]).err
                  THEN Raise
                  ELSE Ret([n \in DOMAIN issues.items |-> IssueRow(issues.items[n]).v])

RECURSIVE FailingTests(_)
\* lines 162-164: the keys of the failing entries of data["tests"], in order
FailingTests(kv) ==
    IF kv = <<>> THEN <<>>
    ELSE LET k == Head(kv)[1]
             v == Head(kv)[2]
             fails == /\ v.t = "obj"
                      /\ \/ Get(v, "status") = JStr(sFAIL)
                         \/ Truthy(Get(v, "foundCounterexample"))
         IN  (IF fails THEN <<k>> ELSE <<>>) \o FailingTests(Tail(kv))

\* lines 156-164: the failing property names
EchidnaFailures(data) ==
    IF data.t # "obj" THEN Ret(<<>>)
    ELSE IF HasKey(data, "failedTests")
         THEN LET ft == Or(Get(data, "failedTests"), EmptyObj)
              IN  IF ft.t # "obj" THEN Raise
                  ELSE Ret([n \in DOMAIN ft.kv |-> ft.kv[n][1]])
    ELSE IF HasKey(data, "tests") /\ Get(data, "tests").t = "obj"
         THEN Ret(FailingTests(Get(data, "tests").kv))
    ELSE Ret(<<>>)

\* parse_echidna on a file whose whole content json.loads turns into `whole` and whose
\* last non-empty line json.loads turns into `last` (None: the file has no such line)
parse_echidna(file) ==
    LET data == IF file.whole.t # "invalid" THEN file.whole
                ELSE IF file.last = None THEN EmptyObj
                ELSE file.last
    IN  IF data.t = "invalid" THEN Ret(<<>>)
        ELSE LET failures == EchidnaFailures(data)
             IN  IF failures.err THEN Raise
                 ELSE Ret([n \in DOMAIN failures.v |->
                            Row("echidna", JStr(sInvariants), JKey(failures.v[n]),
                                sMedium, JStr(sPropertyFailed))])

(***************************************************************************)
(* Inputs of norm_sev: known and unknown tokens in several casings, padded *)
(* with whitespace, and the absent value.                                  *)
(***************************************************************************)
NormWords ==
    { w_critical, w_very_high, w_high, w_medium, w_low, w_info,
      w_informational, w_warning,
      <<"n","o","t","e">>, <<"v","e","r","y"," ","l","o","w">>,
      <<"h","i","g","h","e","s","t">>, <<"o","p","t","-","i","n">>, <<>> }

Casings(w) == { w, Upper(w), Capitalize(w), Title(w) }

Pads == SeqsUpTo({" ", "\t"}, MaxPad)

NormInputs ==
    { JNull } \cup
    { JStr(l \o c \o r) : l \in Pads, r \in Pads,
                           c \in UNION { Casings(w) : w \in NormWords } }

NotRun == [err |-> FALSE, v |-> <<"?">>, pending |-> TRUE]

\* the variables of classify_issue, at rest
IdleClassify == ciText = <<>> /\ ciOut = "-" /\ ciFrags = 0
\* the variables of norm_sev, at rest
IdleNorm == nsIn = JNull /\ nsOut = NotRun
\* the variables of the single parser call, at rest
IdleParse == pTool = "-" /\ pFile = None /\ pOut = NotRun
\* a frame / a table that does not exist (yet)
NoFrame == [has |-> FALSE, rows |-> <<>>]
NoTable == [has |-> FALSE, rows |-> {}]
Frame(rows) == [has |-> TRUE, rows |-> rows]
Table(rows) == [has |-> TRUE, rows |-> rows]
\* the variables of security_score.main, at rest
IdleScore ==
    /\ spc = "idle" /\ weights = <<>> /\ frames = <<>> /\ all_issues = NoFrame
    /\ scores = NoTable /\ scoresFile = NoTable /\ sExit = -1
EmptySummary == [CRITICAL |-> <<>>, MEDIUM |-> <<>>, MINOR |-> <<>>]
\* the variables of retest_manager.main, at rest
IdleRetest ==
    /\ rpc = "idle" /\ rPaths = <<>> /\ rIdx = 0 /\ summary = EmptySummary
    /\ plan = None /\ cmds = <<>> /\ rcodes = <<>> /\ launched = <<>>
    /\ summaryFile = None /\ rExit = -1
\* the variables of the single parse_tte_generic call, at rest
IdleTte == tteTable = None /\ tteField = "-" /\ tteOut = NotRun
\* the variables of aggregate_metrics.main, at rest
IdleMetrics ==
    /\ mpc = "idle" /\ latest_baseline = None /\ latest_improved = None
    /\ baseline = None /\ improved = None
    /\ latest_lcov = None /\ latest_cov = None /\ coverage_pct = None
    /\ csvRows = <<>> /\ tag = "-" /\ mExit = -1

InitNorm ==
    /\ nsIn \in NormInputs
    /\ nsOut = NotRun
    /\ IdleClassify /\ IdleParse /\ IdleScore /\ IdleRetest /\ IdleTte /\ IdleMetrics

\* one call norm_sev(nsIn)
CallNormSev ==
    /\ nsOut = NotRun
    /\ nsOut' = norm_sev(nsIn)
    /\ UNCHANGED <<nsIn, notNorm>>

NextNorm == CallNormSev

SpecNorm == InitNorm /\ [][NextNorm]_vars

NormDone == nsOut # NotRun
\* the token as norm_sev compares it
NormKey == IF nsIn.t = "str" THEN Lower(Strip(nsIn.s)) ELSE <<>>

\* C10 (as stated): critical / very high -> Critical, high -> High, medium -> Medium,
\* low / info / informational / warning -> a value of the canonical set, empty or absent
\* -> Unknown, and every other non-empty token comes back title-cased, otherwise unchanged.
C10_AsStated ==
    NormDone =>
        /\ ~nsOut.err
        /\ NormKey \in {w_critical, w_very_high} => nsOut.v = sCritical
        /\ NormKey = w_high => nsOut.v = sHigh
        /\ NormKey = w_medium => nsOut.v = sMedium
        /\ NormKey \in {w_low, w_info, w_informational, w_warning}
              => nsOut.v \in Canonical
        /\ ~Truthy(nsIn) => nsOut.v = sUnknown
        /\ ( Truthy(nsIn) /\ NormKey \notin {w_critical, w_very_high, w_high, w_medium,
                                             w_low, w_info, w_informational, w_warning} )
              => nsOut.v = Title(nsIn.s)

\* C10 (amended): as above, but low / info / informational / warning give Low, Info,
\* Informational, Warning (the last two lie outside the canonical set), and every other
\* non-empty token comes back stripped of surrounding whitespace and lower-cased with only
\* its first character upper-cased (so a whitespace-only token gives the empty string).
C10_NormSevTable ==
    NormDone =>
        /\ ~nsOut.err
        /\ NormKey \in {w_critical, w_very_high} => nsOut.v = sCritical
        /\ NormKey = w_high => nsOut.v = sHigh
        /\ NormKey = w_medium => nsOut.v = sMedium
        /\ NormKey = w_low => nsOut.v = sLow
        /\ NormKey = w_info => nsOut.v = sInfo
        /\ NormKey = w_informational => nsOut.v = sInformational /\ nsOut.v \notin Canonical
        /\ NormKey = w_warning => nsOut.v = sWarning /\ nsOut.v \notin Canonical
        /\ ~Truthy(nsIn) => nsOut.v = sUnknown
        /\ ( Truthy(nsIn) /\ NormKey \notin {w_critical, w_very_high, w_high, w_medium,
                                             w_low, w_info, w_informational, w_warning} )
              => /\ Len(nsOut.v) = Len(NormKey)
                 /\ \A i \in 1..Len(NormKey) :
                        nsOut.v[i] = IF i = 1 THEN UpperChar(NormKey[i]) ELSE NormKey[i]

\* an upper-case, padded "VERY HIGH" has been normalized to Critical
C10_Witness ==
    /\ NormDone
    /\ nsIn.t = "str"
    /\ nsIn.s # Lower(nsIn.s)
    /\ nsIn.s # Strip(nsIn.s)
    /\ NormKey = w_very_high
    /\ nsOut.v = sCritical

(***************************************************************************)
(* Report files given to the parsers.                                      *)
(***************************************************************************)
\* a key the report does not have
Absent == [t |-> "absent"]
\* the dict of the (key, value) pairs whose value is not Absent
ObjOf(pairs) == JObj(SelectSeq(pairs, LAMBDA q : q[2] # Absent))

p_Token_sol == <<"T","o","k","e","n",".","s","o","l">>
p_src_Token_sol == <<"s","r","c","/","T","o","k","e","n",".","s","o","l">>
p_dot_sol == <<".","s","o","l">>
p_dir == <<"c","o","n","t","r","a","c","t","s","/">>
sVault == <<"V","a","u","l","t">>
sBank == <<"B","a","n","k">>
sNote == <<"n","o","t","e">>

\* raw severity values a report can carry
SevRaws ==
    { JNull, JStr(<<>>), JStr(<<" ">>), JStr(sHigh), JStr(Upper(w_critical)),
      JStr(<<" ">> \o w_medium), JStr(Title(w_very_high)), JStr(w_low),
      JStr(w_informational), JStr(sNote), JInt(3), JInt(0), JList(<<JStr(w_high)>>) }

SourceMappings ==
    { Absent, JNull, EmptyObj, JList(<<JInt(1)>>),
      ObjOf(<< <<"contract", JStr(sVault)>>, <<"filename", JStr(p_Token_sol)>> >>),
      ObjOf(<< <<"contract", JStr(<<>>)>>, <<"filename", JStr(p_Token_sol)>> >>),
      ObjOf(<< <<"filename", JStr(p_Token_sol)>> >>),
      ObjOf(<< <<"filename", JStr(p_src_Token_sol)>> >>),
      ObjOf(<< <<"filename", JStr(p_dir)>> >>),
      ObjOf(<< <<"filename", JStr(p_dot_sol)>> >>),
      ObjOf(<< <<"filename", JNull>> >>),
      ObjOf(<< <<"filename", JInt(5)>> >>) }

ElementInputs ==
    { ObjOf(<< <<"source_mapping", sm>>, <<"contract", c>> >>) :
        sm \in SourceMappings, c \in {Absent, JStr(sBank), JStr(<<>>)} }
    \cup { JStr(sBank), JNull }

Detector(check, title, impact, severity, elements) ==
    ObjOf(<< <<"check", check>>, <<"title", title>>, <<"impact", impact>>,
             <<"severity", severity>>, <<"description", JStr(sNote)>>,
             <<"elements", elements>> >>)

\* detectors without elements, over all severities
PlainDetectors ==
    { Detector(JStr(sNote), Absent, i, sv, Absent) :
        i \in SevRaws, sv \in {Absent, JStr(w_low)} }

\* detectors with a list of elements
ElementDetectors ==
    { Detector(JStr(sNote), Absent, JStr(sHigh), Absent, JList(es)) :
        es \in SeqsUpTo(ElementInputs, MaxItems) }

OddDetectors ==
    { JNull, JStr(sNote),
      Detector(Absent, JStr(sNote), JStr(sHigh), Absent, JNull),
      Detector(Absent, Absent, Absent, Absent, JStr(sNote)),
      Detector(Absent, Absent, JStr(<<" ">>), Absent,
               JList(<<ObjOf(<< <<"contract", JStr(sBank)>> >>)>>)),
      Detector(JStr(sNote), Absent, JStr(w_medium), Absent,
               ObjOf(<< <<"source_mapping", EmptyObj>> >>)),
      Detector(JStr(sNote), Absent, JStr(w_medium), Absent,
               JList(<<ObjOf(<< <<"contract", JStr(sBank)>> >>),
                       ObjOf(<< <<"source_mapping",
                                  ObjOf(<< <<"filename", JStr(p_Token_sol)>> >>)>> >>)>>)) }

SlitherReport(detectors) == ObjOf(<< <<"results", ObjOf(<< <<"detectors", detectors>> >>)>> >>)

SlitherFiles ==
    { JInvalid, JNull, EmptyList, JStr(sNote), EmptyObj,
      ObjOf(<< <<"results", JNull>> >>), ObjOf(<< <<"results", JList(<<JInt(1)>>)>> >>),
      SlitherReport(Absent), SlitherReport(JNull), SlitherReport(JStr(sNote)),
      SlitherReport(ObjOf(<< <<"a", JInt(1)>> >>)) }
    \cup { SlitherReport(JList(<<d>>)) : d \in ElementDetectors }
    \cup { SlitherReport(JList(ds)) : ds \in SeqsUpTo(PlainDetectors \cup OddDetectors, MaxItems) }

Issue(title, swc, severity, contract, filename) ==
    ObjOf(<< <<"title", title>>, <<"swc-id", swc>>, <<"severity", severity>>,
             <<"description", JStr(sNote)>>, <<"contract", contract>>,
             <<"filename", filename>> >>)

IssueInputs ==
    { Issue(JStr(sNote), Absent, sv, JStr(sVault), Absent) : sv \in SevRaws }
    \cup { Issue(Absent, JStr(sNote), JStr(sHigh), c, f) :
             c \in {Absent, JStr(p_src_Token_sol), JStr(p_dir), JInt(7)},
             f \in {Absent, JStr(p_Token_sol)} }
    \cup { JNull, JStr(sNote), Issue(Absent, Absent, Absent, Absent, Absent) }

MythrilFiles ==
    { JInvalid, JNull, EmptyList, EmptyObj,
      ObjOf(<< <<"issues", JNull>> >>), ObjOf(<< <<"issues", JStr(sNote)>> >>),
      ObjOf(<< <<"issues", ObjOf(<< <<"a", JInt(1)>> >>)>> >>) }
    \cup { ObjOf(<< <<"issues", JList(is)>> >>) : is \in SeqsUpTo(IssueInputs, MaxItems) }

PropertyNames == <<"echidna_a", "echidna_b", "echidna_c", "echidna_d">>

TestEntries ==
    { JStr(sFAIL), EmptyObj,
      ObjOf(<< <<"status", JStr(sFAIL)>> >>),
      ObjOf(<< <<"status", JStr(Lower(sFAIL))>> >>),
      ObjOf(<< <<"status", JStr(<<"P","A","S","S">>)>> >>),
      ObjOf(<< <<"status", JStr(<<"P","A","S","S">>)>>, <<"foundCounterexample", JInt(1)>> >>),
      ObjOf(<< <<"status", JStr(<<"P","A","S","S">>)>>, <<"foundCounterexample", JInt(0)>> >>) }

\* a mapping from the first property names to the given values
Mapping(vals) == JObj([n \in DOMAIN vals |-> <<PropertyNames[n], vals[n]>>])

FailedTestsValues ==
    { Absent, JNull, EmptyList, JList(<<JStr(sNote)>>), JStr(sNote) }
    \cup { Mapping(vs) : vs \in SeqsUpTo({JNull}, MaxItems) }

TestsValues ==
    { Absent, JNull, EmptyList }
    \cup { Mapping(vs) : vs \in SeqsUpTo(TestEntries, MaxItems) }

EchidnaDatas ==
    { JNull, EmptyList, JStr(sNote) }
    \cup { ObjOf(<< <<"failedTests", ft>>, <<"tests", ts>> >>) :
             ft \in FailedTestsValues, ts \in TestsValues }
    \cup { ObjOf(<< <<"tests", Mapping(<<ObjOf(<< <<"status", JStr(sFAIL)>> >>)>>)>>,
                    <<"failedTests", JNull>> >>) }

EchidnaFiles ==
    { [whole |-> d, last |-> None] : d \in EchidnaDatas }
    \cup { [whole |-> JInvalid, last |-> l] : l \in {None, JInvalid} \cup EchidnaDatas }

(***************************************************************************)
(* One call of one parser.                                                 *)
(***************************************************************************)
InitParse ==
    /\ IdleNorm /\ IdleClassify /\ IdleScore /\ IdleRetest /\ IdleTte /\ IdleMetrics
    /\ \/ pTool = "slither" /\ pFile \in SlitherFiles
       \/ pTool = "mythril" /\ pFile \in MythrilFiles
       \/ pTool = "echidna" /\ pFile \in EchidnaFiles
    /\ pOut = NotRun

CallParseSlither ==
    /\ pTool = "slither" /\ pOut = NotRun
    /\ pOut' = parse_slither(pFile)
    /\ UNCHANGED <<pTool, pFile, notParse>>

CallParseMythril ==
    /\ pTool = "mythril" /\ pOut = NotRun
    /\ pOut' = parse_mythril(pFile)
    /\ UNCHANGED <<pTool, pFile, notParse>>

CallParseEchidna ==
    /\ pTool = "echidna" /\ pOut = NotRun
    /\ pOut' = parse_echidna(pFile)
    /\ UNCHANGED <<pTool, pFile, notParse>>

NextParse == CallParseSlither \/ CallParseMythril \/ CallParseEchidna

SpecParse == InitParse /\ [][NextParse]_vars

ParseDone == pOut # NotRun

\* C5: every Finding of every parser has a non-empty severity: one of the canonical
\* values or a capitalized pass-through label.
C5_SeverityNeverEmpty ==
    (ParseDone /\ ~pOut.err) =>
        \A n \in DOMAIN pOut.v :
            /\ pOut.v[n].severity # <<>>
            /\ \/ pOut.v[n].severity \in Canonical
               \/ pOut.v[n].severity = Capitalize(pOut.v[n].severity)

\* C6: no parser lets an error out: whatever the file holds, the call returns a list
\* of Findings.
C6_ParsersNeverRaise == ParseDone => ~pOut.err

\* the detectors of a report parse_slither accepted, and the elements of one of them
DetectorsOf(file) == Or(Get(Or(Get(file, "results"), EmptyObj), "detectors"), EmptyList).items
ElementsOf(d) == Or(Get(d, "elements"), EmptyList)
\* the number of Findings a detector stands for: one per element, one if it has none
FindingsOf(d) == IF Truthy(ElementsOf(d)) THEN Len(ElementsOf(d).items) ELSE 1

RECURSIVE FindingsBefore(_, _)
\* the number of Findings of the detectors before the k-th
FindingsBefore(ds, k) ==
    IF k <= 1 THEN 0 ELSE FindingsBefore(ds, k - 1) + FindingsOf(ds[k - 1])

\* the first truthy value of a list of optional values, else the default
FirstTruthy(cands, default) ==
    IF \E n \in DOMAIN cands : Truthy(cands[n])
    THEN cands[CHOOSE n \in DOMAIN cands :
                   Truthy(cands[n]) /\ \A m \in 1..(n - 1) : ~Truthy(cands[m])]
    ELSE default

\* the source mapping of an element, {} when it has none
MappingOf(e) == Or(Get(e, "source_mapping"), EmptyObj)

SlitherParsed == pTool = "slither" /\ ParseDone /\ ~pOut.err /\ pFile.t = "obj"

\* C11: for every element of a detector the Finding's contract is the first available
\* of: the contract of the element's source mapping, the element's own contract field,
\* the stem of the source mapping's filename, "Unknown"; it is never the empty string,
\* and a detector of impact "High" with the single element of filename "Token.sol"
\* gives exactly one Finding, of contract "Token" and severity "High".
C11_ContractChain ==
    SlitherParsed =>
        /\ \A k \in DOMAIN DetectorsOf(pFile) :
              LET d == DetectorsOf(pFile)[k]
              IN  Truthy(ElementsOf(d)) =>
                    \A j \in DOMAIN ElementsOf(d).items :
                        LET e == ElementsOf(d).items[j]
                            fn == GetD(MappingOf(e), "filename", JStr(<<>>))
                            \* looked at only when the two contract fields gave nothing
                            stem == IF fn.t = "str"
                                    THEN JStr(extract_contract_from_path(fn.s)) ELSE JNull
                        IN  pOut.v[FindingsBefore(DetectorsOf(pFile), k) + j].contract =
                                FirstTruthy(<<Get(MappingOf(e), "contract"),
                                              Get(e, "contract"), stem>>,
                                            JStr(sUnknown))
        /\ \A n \in DOMAIN pOut.v : pOut.v[n].contract # JStr(<<>>)
        /\ pFile = SlitherReport(JList(<<Detector(JStr(sNote), Absent, JStr(sHigh), Absent,
                      JList(<<ObjOf(<< <<"source_mapping",
                                ObjOf(<< <<"filename", JStr(p_Token_sol)>> >>)>> >>)>>))>>))
             => /\ Len(pOut.v) = 1
                /\ pOut.v[1].contract = JStr(<<"T","o","k","e","n">>)
                /\ pOut.v[1].severity = sHigh

\* an element naming one contract in its source mapping and another in its own field,
\* followed by one that has only a filename, has been parsed
C11_Witness ==
    /\ SlitherParsed
    /\ Len(DetectorsOf(pFile)) = 1
    /\ Len(pOut.v) = 2
    /\ Get(MappingOf(ElementsOf(DetectorsOf(pFile)[1]).items[1]), "contract") = JStr(sVault)
    /\ Get(ElementsOf(DetectorsOf(pFile)[1]).items[1], "contract") = JStr(sBank)
    /\ pOut.v[1].contract = JStr(sVault)
    /\ MappingOf(ElementsOf(DetectorsOf(pFile)[1]).items[2])
          = ObjOf(<< <<"filename", JStr(p_src_Token_sol)>> >>)
    /\ ~HasKey(ElementsOf(DetectorsOf(pFile)[1]).items[2], "contract")
    /\ pOut.v[2].contract = JStr(<<"T","o","k","e","n">>)

\* C16: parse_slither gives one Finding per element of a detector that has elements and
\* one Finding of contract "Unknown" for a detector that has none, so the Findings number
\* the sum over the detectors of max(1, number of elements); the Findings of one detector
\* share its issue type, its normalized severity and its description.
C16_FindingPerElement ==
    SlitherParsed =>
        LET ds == DetectorsOf(pFile)
        IN  /\ Len(pOut.v) = FindingsBefore(ds, Len(ds) + 1)
            /\ \A k \in DOMAIN ds :
                  /\ FindingsOf(ds[k]) = IF Len(ElementsOf(ds[k]).items) >= 1
                                         THEN Len(ElementsOf(ds[k]).items) ELSE 1
                  /\ ~Truthy(ElementsOf(ds[k])) =>
                        pOut.v[FindingsBefore(ds, k) + 1].contract = JStr(sUnknown)
                  /\ \A j \in 1..FindingsOf(ds[k]) :
                        LET row == pOut.v[FindingsBefore(ds, k) + j]
                        IN  /\ row.tool = "slither"
                            /\ row.issue_type =
                                  FirstTruthy(<<Get(ds[k], "check"), Get(ds[k], "title")>>,
                                              JStr(sSlitherFinding))
                            /\ Ret(row.severity) =
                                  norm_sev(FirstTruthy(<<Get(ds[k], "impact"),
                                                         Get(ds[k], "severity")>>,
                                                       JStr(sUnknown)))
                            /\ row.description = Or(Get(ds[k], "description"), JStr(<<>>))

\* a report of a detector with two elements and a detector with none has given three
\* Findings, the last one of contract "Unknown"
C16_Witness ==
    /\ SlitherParsed
    /\ Len(DetectorsOf(pFile)) = 2
    /\ Len(ElementsOf(DetectorsOf(pFile)[1]).items) = 2
    /\ ~Truthy(ElementsOf(DetectorsOf(pFile)[2]))
    /\ Len(pOut.v) = 3
    /\ pOut.v[3].contract = JStr(sUnknown)
    /\ pOut.v[1].severity = sMedium
    /\ pOut.v[3].severity # sMedium

\* the document parse_echidna works on: the whole file, else its last non-empty line
EchidnaData ==
    IF pFile.whole.t # "invalid" THEN pFile.whole
    ELSE IF pFile.last = None THEN EmptyObj
    ELSE pFile.last

\* the keys of the mapping under key k of the document, none if there is no mapping
KeysUnder(data, k) ==
    IF HasKey(data, k) /\ Get(data, k).t = "obj"
    THEN { Get(data, k).kv[n][1] : n \in DOMAIN Get(data, k).kv }
    ELSE {}

\* the entry of the tests mapping fails: status FAIL, or the counter-example flag set
EntryFails(v) ==
    v.t = "obj" /\ (Get(v, "status") = JStr(sFAIL) \/ Truthy(Get(v, "foundCounterexample")))

\* the failing property names of a document: the keys of failedTests and the failing
\* entries of tests
FailingProperties(data) ==
    KeysUnder(data, "failedTests")
    \cup { k \in KeysUnder(data, "tests") : EntryFails(Get(Get(data, "tests"), k)) }

\* C12: every failing property name of a fuzzer report (each key of failedTests, each
\* entry of tests with status FAIL or the counter-example flag) becomes exactly one
\* Finding of tool echidna, severity Medium and contract "Invariants", whatever the shape
\* of the report (failedTests and tests together included); no other Finding is made.
C12_EveryFailingProperty ==
    (pTool = "echidna" /\ ParseDone /\ ~pOut.err /\ EchidnaData.t = "obj") =>
        /\ { pOut.v[n].issue_type : n \in DOMAIN pOut.v }
              = { JKey(k) : k \in FailingProperties(EchidnaData) }
        /\ Len(pOut.v) = Cardinality(FailingProperties(EchidnaData))
        /\ \A n \in DOMAIN pOut.v :
              /\ pOut.v[n].tool = "echidna"
              /\ pOut.v[n].severity = sMedium
              /\ pOut.v[n].contract = JStr(sInvariants)

(***************************************************************************)
(* security_score.py: load_weights, aggregate_scores, main                 *)
(* A dict is the sequence of its (key, value) pairs in insertion order.    *)
(***************************************************************************)
DictKeys(d) == { d[n][1] : n \in DOMAIN d }

\* d[k] = v: the value replaced in place, or the pair added at the end
DictSet(d, k, v) ==
    IF k \in DictKeys(d)
    THEN [n \in DOMAIN d |-> IF d[n][1] = k THEN <<k, v>> ELSE d[n]]
    ELSE Append(d, <<k, v>>)

RECURSIVE DictUpdate(_, _)
\* d.update(pairs)
DictUpdate(d, pairs) ==
    IF pairs = <<>> THEN d
    ELSE DictUpdate(DictSet(d, Head(pairs)[1], Head(pairs)[2]), Tail(pairs))

DefaultWeights == << <<sCritical, 5>>, <<sHigh, 3>>, <<sMedium, 1>> >>

\* load_weights on the weights file: missing, rejected by json.load, or an object of
\* (key, value) pairs. int(v) keeps an integer and raises on null; FileNotFoundError
\* is the only exception caught.
load_weights(file) ==
    IF ~file.exists THEN Ret(DefaultWeights)
    ELSE IF ~file.valid THEN Raise
    ELSE IF \E n \in DOMAIN file.items : file.items[n][2].t # "int" THEN Raise
    ELSE Ret(DictUpdate(DefaultWeights,
                        [n \in DOMAIN file.items |-> <<file.items[n][1], file.items[n][2].n>>]))

\* line 174: sev_map = {k.capitalize(): int(v) for k, v in weights.items()}
SevMap(w) == DictUpdate(<<>>, [n \in DOMAIN w |-> <<Capitalize(w[n][1]), w[n][2]>>])

\* line 176: the rows whose severity is a key of sev_map
OfInterest(df, sev_map) == SelectSeq(df, LAMBDA r : r.severity \in DictKeys(sev_map))

\* the size of the group (contract, severity)
Count(rows, contract, sev) ==
    Cardinality({ n \in DOMAIN rows : rows[n].contract = contract /\ rows[n].severity = sev })

RECURSIVE Penalty(_, _, _)
\* lines 186-188: the sum over sev_map of count * weight, for one contract
Penalty(rows, contract, sev_map) ==
    IF sev_map = <<>> THEN 0
    ELSE Count(rows, contract, Head(sev_map)[1]) * Head(sev_map)[2]
         + Penalty(rows, contract, Tail(sev_map))

Max(a, b) == IF a >= b THEN a ELSE b

\* lines 185-189: score_row for the row of one contract
score_row(rows, contract, sev_map) == Max(0, 100 - Penalty(rows, contract, sev_map))

ScoreRow(rows, contract, sev_map) ==
    [ contract |-> contract,
      Critical |-> Count(rows, contract, sCritical),
      High |-> Count(rows, contract, sHigh),
      Medium |-> Count(rows, contract, sMedium),
      SecurityScore |-> score_row(rows, contract, sev_map) ]

\* aggregate_scores: the possible results. The table is a set of rows, one per group
\* key (the order groupby gives them is not modelled). When no row is of interest the
\* grouped frame has no rows and counts.apply(score_row, axis=1) is applied to an empty
\* frame: depending on the pandas release it yields an empty Series (the table is
\* empty) or a copy of the frame, whose assignment to the single column SecurityScore
\* raises ValueError.
aggregate_scores(df, w) ==
    LET sev_map == SevMap(w)
        rows == OfInterest(df, sev_map)
    IN  IF rows = <<>> THEN { Ret({}), Raise }
        ELSE { Ret({ ScoreRow(rows, rows[n].contract, sev_map) : n \in DOMAIN rows }) }

ProductRegistry == <<"P","r","o","d","u","c","t","R","e","g","i","s","t","r","y">>
ProductRegistryImproved == ProductRegistry \o <<"I","m","p","r","o","v","e","d">>

\* lines 239-242
DefaultScores ==
    { [contract |-> JStr(c), Critical |-> 0, High |-> 0, Medium |-> 0, SecurityScore |-> 100] :
        c \in {ProductRegistry, ProductRegistryImproved} }

(***************************************************************************)
(* Inputs of one scoring run.                                              *)
(***************************************************************************)
WeightEntries ==
    { <<k, JInt(v)>> : k \in {sHigh, sLow, w_critical}, v \in {-3, 0, 50} }

WeightFiles ==
    { [exists |-> FALSE, valid |-> FALSE, items |-> <<>>],
      [exists |-> TRUE, valid |-> FALSE, items |-> <<>>],
      [exists |-> TRUE, valid |-> TRUE, items |-> << <<sHigh, JNull>> >>] }
    \cup { [exists |-> TRUE, valid |-> TRUE, items |-> it] :
             it \in { q \in SeqsUpTo(WeightEntries, MaxWeightEntries) :
                        \A a, b \in DOMAIN q : a # b => q[a][1] # q[b][1] } }

Element(contract) == ObjOf(<< <<"contract", JStr(contract)>> >>)

ScoreSlitherFiles ==
    { JInvalid, JNull,
      \* one High finding for Token
      SlitherReport(JList(<<Detector(JStr(sNote), Absent, JStr(sHigh), Absent,
          JList(<<ObjOf(<< <<"source_mapping",
                             ObjOf(<< <<"filename", JStr(p_Token_sol)>> >>)>> >>)>>))>>)),
      \* one Critical and two Medium findings for Vault
      SlitherReport(JList(<<
          Detector(JStr(sNote), Absent, JStr(Upper(w_critical)), Absent,
                   JList(<<Element(sVault)>>)),
          Detector(JStr(sNote), Absent, JStr(w_medium), Absent,
                   JList(<<Element(sVault), Element(sVault)>>))>>)),
      \* one Low finding for Bank
      SlitherReport(JList(<<Detector(JStr(sNote), Absent, JStr(w_low), Absent,
                                     JList(<<Element(sBank)>>))>>)) }

ScoreMythrilFiles ==
    { ObjOf(<< <<"issues", EmptyList>> >>),
      \* a High finding for Vault and a Low one for Token
      ObjOf(<< <<"issues", JList(<<
          Issue(JStr(sNote), Absent, JStr(sHigh), JStr(sVault), Absent),
          Issue(JStr(sNote), Absent, JStr(w_low), Absent, JStr(p_src_Token_sol))>>)>> >>),
      \* a finding without severity for Bank
      ObjOf(<< <<"issues", JList(<<
          Issue(JStr(sNote), Absent, Absent, JStr(sBank), Absent)>>)>> >>) }

ScoreEchidnaFiles ==
    { [whole |-> JInvalid, last |-> JInvalid],
      [whole |-> ObjOf(<< <<"failedTests", Mapping(<<JNull>>)>> >>), last |-> None],
      [whole |-> ObjOf(<< <<"failedTests", JList(<<JStr(sNote)>>)>> >>), last |-> None] }

(***************************************************************************)
(* security_score.main                                                     *)
(***************************************************************************)
InitScore ==
    /\ IdleNorm /\ IdleClassify /\ IdleParse /\ IdleRetest /\ IdleTte /\ IdleMetrics
    /\ spc = "load_weights"
    /\ weights = <<>> /\ frames = <<>> /\ all_issues = NoFrame
    /\ scores = NoTable /\ scoresFile = NoTable /\ sExit = -1

\* line 216: weights = load_weights()
LoadWeights ==
    /\ spc = "load_weights"
    /\ \E file \in WeightFiles :
        LET r == load_weights(file)
        IN  IF r.err
            THEN spc' = "crashed" /\ UNCHANGED weights
            ELSE spc' = "slither" /\ weights' = r.v
    /\ UNCHANGED <<frames, all_issues, scores, scoresFile, sExit, notScore>>

\* a frame is appended, or the exception of the parser leaves main
Parsed(r) ==
    /\ IF r.err
       THEN spc' = "crashed" /\ UNCHANGED frames
       ELSE spc' = spc /\ frames' = Append(frames, r.v)
    /\ UNCHANGED <<weights, all_issues, scores, scoresFile, sExit, notScore>>

\* lines 220-221: one more slither_*.json
ParseSlitherFile ==
    /\ spc = "slither" /\ Len(frames) < MaxReports
    /\ \E f \in ScoreSlitherFiles : Parsed(parse_slither(f))

\* lines 222-223: one more mythril_*.json
ParseMythrilFile ==
    /\ spc = "mythril" /\ Len(frames) < MaxReports
    /\ \E f \in ScoreMythrilFiles : Parsed(parse_mythril(f))

\* lines 224-225: one more echidna_*.json
ParseEchidnaFile ==
    /\ spc = "echidna" /\ Len(frames) < MaxReports
    /\ \E f \in ScoreEchidnaFiles : Parsed(parse_echidna(f))

\* the list of one pattern is exhausted
ListDone ==
    /\ spc \in {"slither", "mythril", "echidna"}
    /\ spc' = CASE spc = "slither" -> "mythril"
                [] spc = "mythril" -> "echidna"
                [] spc = "echidna" -> "concat"
    /\ UNCHANGED <<weights, frames, all_issues, scores, scoresFile, sExit, notScore>>

\* lines 227-234: the frames are concatenated and the snapshot written
Concat ==
    /\ spc = "concat"
    /\ all_issues' = Frame(Flatten(frames))
    /\ spc' = "score"
    /\ UNCHANGED <<weights, frames, scores, scoresFile, sExit, notScore>>

\* lines 237-244: the default rows, or aggregate_scores
Score ==
    /\ spc = "score"
    /\ IF Len(all_issues.rows) = 0
       THEN scores' = Table(DefaultScores) /\ spc' = "write"
       ELSE \E r \in aggregate_scores(all_issues.rows, weights) :
               IF r.err
               THEN spc' = "crashed" /\ UNCHANGED scores
               ELSE spc' = "write" /\ scores' = Table(r.v)
    /\ UNCHANGED <<weights, frames, all_issues, scoresFile, sExit, notScore>>

\* lines 247-249: security_scores.csv
WriteScores ==
    /\ spc = "write"
    /\ scoresFile' = scores
    /\ spc' = "report"
    /\ UNCHANGED <<weights, frames, all_issues, scores, sExit, notScore>>

\* lines 251-344: the comparison table and the README; main returns 0
Report ==
    /\ spc = "report"
    /\ sExit' = 0
    /\ spc' = "done"
    /\ UNCHANGED <<weights, frames, all_issues, scores, scoresFile, notScore>>

NextScore ==
    \/ LoadWeights \/ ParseSlitherFile \/ ParseMythrilFile \/ ParseEchidnaFile
    \/ ListDone \/ Concat \/ Score \/ WriteScores \/ Report

SpecScore == InitScore /\ [][NextScore]_vars

\* the table in `scores` is the result of aggregate_scores
Aggregated == scores.has /\ Len(all_issues.rows) > 0

\* sev_map[k]
WeightOf(k) ==
    LET sev_map == SevMap(weights)
    IN  sev_map[CHOOSE n \in DOMAIN sev_map : sev_map[n][1] = k][2]

\* one more finding of severity sev for the contract
OneMore(contract, sev) ==
    Append(all_issues.rows, Row("slither", contract, JStr(sNote), sev, JStr(<<>>)))

\* C1: whatever weights load_weights produced, every SecurityScore lies in 0..100 and
\* one more finding of a weighted severity for a contract never raises its score.
C1_ScoreRangeMonotone ==
    Aggregated =>
        \A row \in scores.rows :
            /\ row.SecurityScore \in 0..100
            /\ \A sev \in {sCritical, sHigh, sMedium} :
                  score_row(OfInterest(OneMore(row.contract, sev), SevMap(weights)),
                            row.contract, SevMap(weights)) <= row.SecurityScore

\* C2: every SecurityScore is max(0, 100 - (Critical*wC + High*wH + Medium*wM)):
\* findings of any other severity never change a score, whatever the weights file holds.
C2_ScoreFormula ==
    Aggregated =>
        \A row \in scores.rows :
            row.SecurityScore =
                Max(0, 100 - ( row.Critical * WeightOf(sCritical)
                             + row.High * WeightOf(sHigh)
                             + row.Medium * WeightOf(sMedium) ))

\* C8: the table of a non-empty finding set has exactly one row per contract of the
\* finding set; a contract without Critical, High or Medium finding has zero counts
\* and score 100.
C8_RowPerContract ==
    Aggregated =>
        /\ { row.contract : row \in scores.rows }
             = { all_issues.rows[n].contract : n \in DOMAIN all_issues.rows }
        /\ \A r1, r2 \in scores.rows : r1.contract = r2.contract => r1 = r2
        /\ \A row \in scores.rows :
              (\A n \in DOMAIN all_issues.rows :
                  all_issues.rows[n].contract = row.contract
                      => all_issues.rows[n].severity \notin {sCritical, sHigh, sMedium})
              => /\ row.Critical = 0 /\ row.High = 0 /\ row.Medium = 0
                 /\ row.SecurityScore = 100

\* C9: the two default rows are emitted exactly when the combined finding set is empty,
\* and once the finding set is combined the run ends with a score table written.
C9_TableAlwaysWritten ==
    /\ scores.has => (scores.rows = DefaultScores <=> Len(all_issues.rows) = 0)
    /\ (spc \in {"done", "crashed"} /\ all_issues.has) => scoresFile.has

\* C15: of the files matching one pattern only the most recently modified one is
\* consumed: the scoring engine parses at most one slither_*.json report (the frames
\* held while the first pattern is being read come from at most one file), and the
\* retest planner puts at most one report in its buckets.
C15_OnlyLatestConsumed ==
    /\ spc = "slither" => Len(frames) <= 1
    /\ Len(summary.CRITICAL) + Len(summary.MEDIUM) + Len(summary.MINOR) <= 1

(***************************************************************************)
(* retest_manager.py: classify_issue                                       *)
(***************************************************************************)
CriticalKeywords == <<
    <<"r","e","e","n","t","r","a","n","c","y">>,
    <<"a","c","c","e","s","s"," ","c","o","n","t","r","o","l">>,
    <<"a","u","t","h","o","r","i","z","a","t","i","o","n">>,
    <<"a","u","t","h","o","r","i","z">>,
    <<"o","v","e","r","f","l","o","w">>,
    <<"u","n","d","e","r","f","l","o","w">>,
    <<"a","u","t","h"," ","b","y","p","a","s","s">>,
    <<"o","w","n","e","r","s","h","i","p">>,
    <<"u","n","a","u","t","h","o","r","i","z","e","d">> >>

MediumKeywords == <<
    <<"t","i","m","e","s","t","a","m","p">>,
    <<"e","q","u","a","l","i","t","y">>,
    <<"p","r","a","g","m","a">>,
    <<"v","e","r","s","i","o","n">>,
    <<"b","l","o","c","k",".","t","i","m","e","s","t","a","m","p">>,
    <<"=","="," ","0">>,
    <<"!","="," ","0">> >>

\* any(k in s for k in keywords)
AnyIn(keywords, s) == \E n \in DOMAIN keywords : Contains(s, keywords[n])

\* classify_issue with the two tests in the other order
classify_issue_medium_first(msg) ==
    LET s == Lower(msg)
    IN  IF AnyIn(MediumKeywords, s) THEN "MEDIUM"
        ELSE IF AnyIn(CriticalKeywords, s) THEN "CRITICAL"
        ELSE "MINOR"

classify_issue(msg) ==
    LET s == Lower(msg)
    IN  IF AnyIn(CriticalKeywords, s) THEN "CRITICAL"
        ELSE IF AnyIn(MediumKeywords, s) THEN "MEDIUM"
        ELSE "MINOR"

(***************************************************************************)
(* Texts handed to classify_issue: concatenations of keywords (in lower,   *)
(* upper and mixed case), of pieces of keywords and of filler.             *)
(***************************************************************************)
Fragments ==
    { CriticalKeywords[n] : n \in DOMAIN CriticalKeywords } \cup
    { MediumKeywords[n] : n \in DOMAIN MediumKeywords } \cup
    { Upper(CriticalKeywords[1]), Capitalize(CriticalKeywords[5]),
      Title(CriticalKeywords[2]), Upper(MediumKeywords[1]),
      Capitalize(MediumKeywords[3]), Upper(MediumKeywords[5]) } \cup
    { <<"o","v","e","r">>, <<"f","l","o","w">>, <<"t","i","m","e">>,
      <<"s","t","a","m","p">>, <<"=","=","0">>, <<"=","=">>, <<" ","0">>,
      <<"a","u","t","h","o","r">>, <<" ">>, <<"o","k">> }

InitClassify ==
    /\ ciText = <<>> /\ ciOut = "-" /\ ciFrags = 0
    /\ IdleNorm /\ IdleParse /\ IdleScore /\ IdleRetest /\ IdleTte /\ IdleMetrics

\* the caller extends the text by one fragment
AppendFragment ==
    /\ ciFrags < MaxFrags
    /\ \E f \in Fragments : ciText' = ciText \o f
    /\ ciFrags' = ciFrags + 1
    /\ ciOut' = "-"
    /\ UNCHANGED notClassify

\* one call classify_issue(ciText)
CallClassify ==
    /\ ciOut = "-"
    /\ ciOut' = classify_issue(ciText)
    /\ UNCHANGED <<ciText, ciFrags, notClassify>>

NextClassify == AppendFragment \/ CallClassify

SpecClassify == InitClassify /\ [][NextClassify]_vars

\* the text holds keyword k at some offset, letter case ignored
HoldsKeyword(text, k) ==
    \E i \in 0..(Len(text) - Len(k)) :
        \A j \in 1..Len(k) : LowerChar(text[i + j]) = k[j]

HoldsCritical(text) == \E n \in DOMAIN CriticalKeywords : HoldsKeyword(text, CriticalKeywords[n])
HoldsMedium(text) == \E n \in DOMAIN MediumKeywords : HoldsKeyword(text, MediumKeywords[n])

\* C4: classify_issue is a case-insensitive first-match classifier over two disjoint
\* keyword lists: a text holding a CRITICAL keyword is CRITICAL whatever else it holds,
\* a text holding a MEDIUM keyword and no CRITICAL one is MEDIUM, every other text
\* (the empty one included) is MINOR.
C4_FirstMatch ==
    /\ { CriticalKeywords[n] : n \in DOMAIN CriticalKeywords }
         \cap { MediumKeywords[n] : n \in DOMAIN MediumKeywords } = {}
    /\ ciOut # "-" =>
        /\ HoldsCritical(ciText) => ciOut = "CRITICAL"
        /\ (~HoldsCritical(ciText) /\ HoldsMedium(ciText)) => ciOut = "MEDIUM"
        /\ (~HoldsCritical(ciText) /\ ~HoldsMedium(ciText)) => ciOut = "MINOR"
        /\ ciText = <<>> => ciOut = "MINOR"

\* a text holding a MEDIUM keyword and then a CRITICAL one, not all in lower case,
\* has been classified CRITICAL
C4_Witness ==
    /\ ciOut = "CRITICAL"
    /\ HoldsMedium(ciText)
    /\ HoldsCritical(ciText)
    /\ ciText # Lower(ciText)
    /\ HoldsMedium(SubSeq(ciText, 1, 9))

(***************************************************************************)
(* retest_manager.py: analyze_reports, write_retest_plan, run_cmd,         *)
(* write_summary, main                                                     *)
(***************************************************************************)
\* the module-level timestamp, computed once when the module is loaded
TS == "20260101T000000Z"

FullActions ==
    <<"run_slither", "run_mythril", "forge_test", "measure_tte",
      "measure_tte_improved", "aggregate_metrics", "plot_metrics">>
AnalysisActions == <<"run_slither", "run_mythril", "aggregate_metrics">>

FullCmds ==
    <<"bash scripts/run_slither.sh", "bash scripts/run_mythril.sh", "forge test",
      "bash scripts/measure_tte.sh 3", "bash scripts/measure_tte_improved.sh 3",
      "python3 scripts/aggregate_metrics.py", "python3 scripts/plot_metrics.py">>
AnalysisCmds ==
    <<"bash scripts/run_slither.sh", "bash scripts/run_mythril.sh",
      "python3 scripts/aggregate_metrics.py">>

\* the i-th path glob returned
FileNames == <<"slither_1.json", "mythril_1.json", "echidna_1.json", "normalized.json">>

\* What a report file holds: content json.load rejects (or a file that cannot be
\* read), or a document whose json.dumps text is `dumped`.
ReportFiles ==
    { [ok |-> FALSE, dumped |-> <<>>],
      [ok |-> TRUE, dumped |-> Capitalize(CriticalKeywords[5])],
      [ok |-> TRUE, dumped |-> MediumKeywords[5]],
      [ok |-> TRUE, dumped |-> MediumKeywords[3] \o <<" ">> \o Upper(CriticalKeywords[8])],
      [ok |-> TRUE, dumped |-> <<"{","}">>] }

\* the bucket of a file when one that cannot be parsed is taken for the worst case
BucketOf_unreadable_critical(file) ==
    IF file.ok THEN classify_issue(file.dumped) ELSE "CRITICAL"

\* the bucket analyze_reports puts one file in (lines 73-81)
BucketOf(file) == IF file.ok THEN classify_issue(file.dumped) ELSE "MINOR"

\* the branch of write_retest_plan taken the wrong way round
recommended_actions_medium_first(summ) ==
    IF summ.MEDIUM # <<>> THEN AnalysisActions
    ELSE IF summ.CRITICAL # <<>> THEN FullActions
    ELSE <<>>

\* plan["recommended_actions"] (lines 94-111)
recommended_actions(summ) ==
    IF summ.CRITICAL # <<>> THEN FullActions
    ELSE IF summ.MEDIUM # <<>> THEN AnalysisActions
    ELSE <<>>

\* write_retest_plan: the plan written to retest_plan_<TS>.json
write_retest_plan(summ) ==
    [ timestamp |-> TS,
      severity_counts |-> [k \in {"CRITICAL", "MEDIUM", "MINOR"} |-> Len(summ[k])],
      files |-> summ,
      recommended_actions |-> recommended_actions(summ) ]

\* main's choice of cmds with the two tests in the other order
select_cmds_medium_first(summ) ==
    IF summ.MEDIUM # <<>> THEN AnalysisCmds
    ELSE IF summ.CRITICAL # <<>> THEN FullCmds
    ELSE <<>>

\* main's choice of cmds (lines 166-184)
select_cmds(summ) ==
    IF summ.CRITICAL # <<>> THEN FullCmds
    ELSE IF summ.MEDIUM # <<>> THEN AnalysisCmds
    ELSE <<>>

\* What launching a command can do: the child exits with a status, or
\* subprocess.run itself raises.
Outcomes == { [raised |-> FALSE, rc |-> 0], [raised |-> FALSE, rc |-> 2],
              [raised |-> TRUE, rc |-> 0] }

\* run_cmd with the exception swallowed as a success
run_cmd_swallow(o) == IF o.raised THEN 0 ELSE o.rc

\* run_cmd: the child's return code, 1 when launching it raised
run_cmd(o) == IF o.raised THEN 1 ELSE o.rc

\* write_summary stamping the summary with a time of its own
write_summary_own_ts(summ, cs, rs) ==
    [ timestamp |-> "20260101T000007Z",
      counts |-> [k \in {"CRITICAL", "MEDIUM", "MINOR"} |-> Len(summ[k])],
      lines |-> [i \in 1..(IF Len(cs) < Len(rs) THEN Len(cs) ELSE Len(rs)) |-> <<cs[i], rs[i]>>] ]

\* write_summary: the counts, and one line per (command, return code) of zip(cmds, rcodes)
write_summary(summ, cs, rs) ==
    [ timestamp |-> TS,
      counts |-> [k \in {"CRITICAL", "MEDIUM", "MINOR"} |-> Len(summ[k])],
      lines |-> [i \in 1..(IF Len(cs) < Len(rs) THEN Len(cs) ELSE Len(rs)) |-> <<cs[i], rs[i]>>] ]

InitRetest ==
    /\ IdleNorm /\ IdleClassify /\ IdleParse /\ IdleScore /\ IdleTte /\ IdleMetrics
    /\ rpc = "analyze"
    /\ \E n \in 0..MaxFiles : rPaths \in [1..n -> ReportFiles]
    /\ rIdx = 1
    /\ summary = EmptySummary
    /\ plan = None /\ cmds = <<>> /\ rcodes = <<>> /\ launched = <<>>
    /\ summaryFile = None /\ rExit = -1

\* analyze_reports: one turn of the loop over the paths
AnalyzeFile ==
    /\ rpc = "analyze"
    /\ rIdx <= Len(rPaths)
    /\ LET b == BucketOf(rPaths[rIdx])
       IN  summary' = [summary EXCEPT ![b] = Append(@, FileNames[rIdx])]
    /\ rIdx' = rIdx + 1
    /\ UNCHANGED <<rpc, rPaths, plan, cmds, rcodes, launched, summaryFile, rExit, notRetest>>

\* analyze_reports returns; main writes the plan and chooses its commands
WritePlan ==
    /\ rpc = "analyze"
    /\ rIdx > Len(rPaths)
    /\ plan' = write_retest_plan(summary)
    /\ cmds' = select_cmds(summary)
    /\ rIdx' = 1
    /\ rpc' = "run"
    /\ UNCHANGED <<rPaths, summary, rcodes, launched, summaryFile, rExit, notRetest>>

\* one turn of `for c in cmds: rcodes.append(run_cmd(c))`
RunCmd ==
    /\ rpc = "run"
    /\ rIdx <= Len(cmds)
    /\ \E o \in Outcomes :
        /\ launched' = Append(launched, [cmd |-> cmds[rIdx], outcome |-> o])
        /\ rcodes' = Append(rcodes, run_cmd(o))
    /\ rIdx' = rIdx + 1
    /\ UNCHANGED <<rpc, rPaths, summary, plan, cmds, summaryFile, rExit, notRetest>>

\* the loop is over: main writes the summary and returns 0
WriteSummary ==
    /\ rpc = "run"
    /\ rIdx > Len(cmds)
    /\ summaryFile' = write_summary(summary, cmds, rcodes)
    /\ rExit' = 0
    /\ rpc' = "done"
    /\ UNCHANGED <<rPaths, rIdx, summary, plan, cmds, rcodes, launched, notRetest>>

NextRetest == AnalyzeFile \/ WritePlan \/ RunCmd \/ WriteSummary

SpecRetest == InitRetest /\ [][NextRetest]_vars

\* C3: the plan's recommended_actions is the full list when the CRITICAL bucket holds a
\* file, the analysis-only list when the MEDIUM bucket holds one and CRITICAL none, and
\* empty otherwise; with no file at all severity_counts is all zero.
C3_PlanActions ==
    plan # None =>
        /\ Len(summary.CRITICAL) >= 1 =>
              plan.recommended_actions =
                  <<"run_slither", "run_mythril", "forge_test", "measure_tte",
                    "measure_tte_improved", "aggregate_metrics", "plot_metrics">>
        /\ (Len(summary.CRITICAL) = 0 /\ Len(summary.MEDIUM) >= 1) =>
              plan.recommended_actions = <<"run_slither", "run_mythril", "aggregate_metrics">>
        /\ (Len(summary.CRITICAL) = 0 /\ Len(summary.MEDIUM) = 0) =>
              plan.recommended_actions = <<>>
        /\ rPaths = <<>> =>
              /\ plan.recommended_actions = <<>>
              /\ plan.severity_counts = [k \in {"CRITICAL", "MEDIUM", "MINOR"} |-> 0]
        /\ plan.files = summary

\* a plan written for a directory holding a MEDIUM file and then a CRITICAL one
C3_Witness ==
    /\ plan # None
    /\ Len(summary.CRITICAL) >= 1
    /\ Len(summary.MEDIUM) >= 1
    /\ Len(plan.recommended_actions) = 7

\* C7: every command of the selected list is launched exactly once, in list order, and
\* its status recorded (1 when the launch raised), whatever the earlier commands did.
C7_AllCommandsRun ==
    /\ rpc \in {"run", "done"} =>
        /\ Len(launched) = rIdx - 1
        /\ Len(rcodes) = Len(launched)
        /\ Len(launched) <= Len(cmds)
        /\ \A i \in 1..Len(launched) :
              /\ launched[i].cmd = cmds[i]
              /\ rcodes[i] = IF launched[i].outcome.raised THEN 1 ELSE launched[i].outcome.rc
    /\ rpc = "done" =>
        /\ Len(launched) = Len(cmds)
        /\ cmds = select_cmds(summary)

\* the run ended with all seven commands launched although the first exited non-zero
\* and the second could not be launched
C7_Witness ==
    /\ rpc = "done"
    /\ Len(launched) = 7
    /\ launched[1].outcome = [raised |-> FALSE, rc |-> 2]
    /\ launched[2].outcome.raised
    /\ rcodes[2] = 1
    /\ rcodes[7] = 0

Buckets == {"CRITICAL", "MEDIUM", "MINOR"}
\* the number of files analyze_reports has dealt with
Analyzed == IF rpc = "analyze" THEN rIdx - 1 ELSE Len(rPaths)
\* the places of a file name in the buckets
PlacesOf(name) ==
    { <<k, n>> \in Buckets \X (1..MaxFiles + 1) : n <= Len(summary[k]) /\ summary[k][n] = name }

\* C18: every *.json file analyze_reports has dealt with is in exactly one of the buckets
\* CRITICAL, MEDIUM, MINOR under its file name, a file that cannot be read or parsed in
\* MINOR; the plan's severity_counts are the lengths of the buckets and add up to the
\* number of files found.
C18_BucketsPartition ==
    /\ \A i \in 1..Analyzed :
          /\ Cardinality(PlacesOf(FileNames[i])) = 1
          /\ ~rPaths[i].ok => \E n \in DOMAIN summary.MINOR : summary.MINOR[n] = FileNames[i]
    /\ Len(summary.CRITICAL) + Len(summary.MEDIUM) + Len(summary.MINOR) = Analyzed
    /\ plan # None =>
          /\ \A k \in Buckets :
                /\ plan.severity_counts[k] = Len(summary[k])
                /\ plan.files[k] = summary[k]
          /\ plan.severity_counts["CRITICAL"] + plan.severity_counts["MEDIUM"]
                + plan.severity_counts["MINOR"] = Len(rPaths)

\* a plan for a directory of an unparsable file and a CRITICAL one
C18_Witness ==
    /\ plan # None
    /\ Len(rPaths) = 2
    /\ ~rPaths[1].ok
    /\ summary.MINOR = <<FileNames[1]>>
    /\ summary.CRITICAL = <<FileNames[2]>>
    /\ plan.severity_counts["MINOR"] = 1

\* the command that carries out a recommended action
CommandFor(action) ==
    CASE action = "run_slither" -> "bash scripts/run_slither.sh"
      [] action = "run_mythril" -> "bash scripts/run_mythril.sh"
      [] action = "forge_test" -> "forge test"
      [] action = "measure_tte" -> "bash scripts/measure_tte.sh 3"
      [] action = "measure_tte_improved" -> "bash scripts/measure_tte_improved.sh 3"
      [] action = "aggregate_metrics" -> "python3 scripts/aggregate_metrics.py"
      [] action = "plot_metrics" -> "python3 scripts/plot_metrics.py"

\* C19: the commands main runs agree with the recommended_actions of the plan of the same
\* invocation: same branch, same length (7, 3 or 0), the i-th command is the command of
\* the i-th recommended action; at the end exactly these commands have been launched.
C19_CommandsMatchPlan ==
    /\ rpc \in {"run", "done"} =>
          /\ Len(cmds) = Len(plan.recommended_actions)
          /\ Len(cmds) = IF summary.CRITICAL # <<>> THEN 7
                         ELSE IF summary.MEDIUM # <<>> THEN 3 ELSE 0
          /\ \A i \in DOMAIN cmds : cmds[i] = CommandFor(plan.recommended_actions[i])
          /\ \A i \in DOMAIN launched :
                launched[i].cmd = CommandFor(plan.recommended_actions[i])
    /\ rpc = "done" => Len(launched) = Len(plan.recommended_actions)

\* an invocation on a MEDIUM-only directory has run its three commands
C19_Witness ==
    /\ rpc = "done"
    /\ summary.CRITICAL = <<>>
    /\ summary.MEDIUM # <<>>
    /\ Len(launched) = 3
    /\ launched[3].cmd = "python3 scripts/aggregate_metrics.py"
    /\ plan.recommended_actions[3] = "aggregate_metrics"

\* C20: within one invocation the plan is written before the first command starts, the
\* commands run one at a time, each returning before the next starts, and the summary is
\* written only after the last one returned; the summary carries the plan's timestamp
\* and one (command, exit code) line per executed command, in execution order; the
\* invocation returns 0 whatever the commands returned.
C20_StepOrder ==
    /\ [](/\ launched # <<>> => plan # None
          /\ Len(rcodes) = Len(launched)
          /\ summaryFile # None =>
                /\ plan # None
                /\ Len(launched) = Len(cmds)
                /\ summaryFile.timestamp = plan.timestamp
                /\ Len(summaryFile.lines) = Len(launched)
                /\ \A i \in DOMAIN launched :
                      summaryFile.lines[i] = <<launched[i].cmd, rcodes[i]>>
          /\ rpc = "done" <=> summaryFile # None
          /\ rpc = "done" => rExit = 0
          /\ rpc # "done" => rExit = -1)
    /\ [][/\ launched' # launched =>
                /\ plan # None /\ plan' = plan
                /\ summaryFile = None /\ summaryFile' = None
                /\ \E x \in {launched'[Len(launched')]} : launched' = Append(launched, x)
          /\ plan # None => plan' = plan
          /\ summaryFile # None => UNCHANGED <<launched, rcodes, summaryFile, rExit>>]_vars

\* the summary of an invocation whose commands exited 2, could not be launched, and 0
C20_Witness ==
    /\ summaryFile # None
    /\ Len(summaryFile.lines) = 3
    /\ summaryFile.lines[1] = <<"bash scripts/run_slither.sh", 2>>
    /\ summaryFile.lines[2] = <<"bash scripts/run_mythril.sh", 1>>
    /\ summaryFile.lines[3] = <<"python3 scripts/aggregate_metrics.py", 0>>
    /\ summaryFile.timestamp = TS
    /\ rExit = 0

(***************************************************************************)
(* aggregate_metrics.py: floats                                            *)
(* A float that came from a decimal text and went through round(x, 6) is   *)
(* the double nearest to a decimal of at most six fractional digits: it is *)
(* kept as that decimal, counted in millionths. nan is a value of its own. *)
(***************************************************************************)
Num(u) == [t |-> "float", u |-> u]
NaN == [t |-> "nan"]

DigitChars == <<"0","1","2","3","4","5","6","7","8","9">>
IsDigit(c) == \E i \in DOMAIN DigitChars : DigitChars[i] = c
DigitVal(c) == (CHOOSE i \in DOMAIN DigitChars : DigitChars[i] = c) - 1
AllDigits(ds) == \A i \in DOMAIN ds : IsDigit(ds[i])

RECURSIVE IntOf(_)
\* the number a string of digits spells
IntOf(ds) ==
    IF ds = <<>> THEN 0
    ELSE IntOf(SubSeq(ds, 1, Len(ds) - 1)) * 10 + DigitVal(ds[Len(ds)])

RECURSIVE Pow10(_)
Pow10(n) == IF n = 0 THEN 1 ELSE 10 * Pow10(n - 1)

\* float(text) for the spellings the tables of the model use: surrounding whitespace, an
\* optional sign, then "nan" in any letter case or digits with at most one "." and at
\* most six digits after it; every other text raises ValueError. (Exponents, "inf",
\* underscores and longer fractions, which float() also accepts, do not occur.)
float(text) ==
    LET x == Strip(text)
        signed == x # <<>> /\ x[1] \in {"+", "-"}
        body == IF signed THEN Tail(x) ELSE x
        dots == {i \in DOMAIN body : body[i] = "."}
        dot == IF dots = {} THEN Len(body) + 1 ELSE CHOOSE i \in dots : TRUE
        ip == SubSeq(body, 1, dot - 1)
        fp == SubSeq(body, dot + 1, Len(body))
        mag == IntOf(ip) * Pow10(6) + IntOf(fp) * Pow10(6 - Len(fp))
    IN  IF Lower(body) = <<"n","a","n">> THEN Ret(NaN)
        ELSE IF /\ Cardinality(dots) <= 1 /\ AllDigits(ip) /\ AllDigits(fp)
                /\ Len(ip) + Len(fp) >= 1 /\ Len(fp) <= 6
             THEN Ret(Num(IF signed /\ x[1] = "-" THEN 0 - mag ELSE mag))
        ELSE Raise

\* a < b and a <= b on floats: every comparison with nan is false
Less(a, b) == a.t = "float" /\ b.t = "float" /\ a.u < b.u
Leq(a, b) == a.t = "float" /\ b.t = "float" /\ a.u <= b.u

\* p / q rounded to a whole number of millionths: the nearest one, and either neighbour
\* when p / q lies exactly half way (round() then goes by the binary value of the float)
RoundDiv(p, q) ==
    LET lo == p \div q
        r == p % q
    IN  IF 2 * r < q THEN {lo} ELSE IF 2 * r > q THEN {lo + 1} ELSE {lo, lo + 1}

Reverse(a) == [i \in 1..Len(a) |-> a[Len(a) + 1 - i]]

RECURSIVE RunEnd(_, _, _)
\* list.sort, count_run: the last index of the run that starts the list and goes on
\* through index k: strictly descending, or not descending
RunEnd(a, desc, k) ==
    IF k = Len(a) THEN k
    ELSE IF Less(a[k + 1], a[k]) = desc THEN RunEnd(a, desc, k + 1)
    ELSE k

RECURSIVE InsertAt(_, _, _, _)
\* list.sort, binarysort: the place of pivot in the sorted list, by bisection between
\* the 0-based bounds l and r
InsertAt(sorted, pivot, l, r) ==
    IF l >= r THEN l
    ELSE LET mid == l + ((r - l) \div 2)
         IN  IF Less(pivot, sorted[mid + 1]) THEN InsertAt(sorted, pivot, l, mid)
             ELSE InsertAt(sorted, pivot, mid + 1, r)

RECURSIVE InsertAll(_, _)
InsertAll(sorted, rest) ==
    IF rest = <<>> THEN sorted
    ELSE LET at == InsertAt(sorted, Head(rest), 0, Len(sorted))
         IN  InsertAll(SubSeq(sorted, 1, at) \o <<Head(rest)>>
                          \o SubSeq(sorted, at + 1, Len(sorted)),
                       Tail(rest))

\* sorted(a) for a list shorter than 64: the leading run, reversed if it descends, then
\* the other elements inserted one by one; only `<` is asked of the elements
sorted(a) ==
    IF Len(a) < 2 THEN a
    ELSE LET desc == Less(a[2], a[1])
             n == RunEnd(a, desc, 2)
             run == IF desc THEN Reverse(SubSeq(a, 1, n)) ELSE SubSeq(a, 1, n)
         IN  InsertAll(run, SubSeq(a, n + 1, Len(a)))

RECURSIVE SumOf(_)
SumOf(a) == IF a = <<>> THEN 0 ELSE Head(a).u + SumOf(Tail(a))

HasNaN(a) == \E i \in DOMAIN a : a[i].t = "nan"

\* round(statistics.mean(a), 6) of a non-empty list: the possible values
mean(a) ==
    IF HasNaN(a) THEN {NaN} ELSE { Num(q) : q \in RoundDiv(SumOf(a), Len(a)) }

\* round(statistics.median(a), 6) of a non-empty list: the possible values
median(a) ==
    LET data == sorted(a)
        n == Len(data)
        i == n \div 2
    IN  IF n % 2 = 1 THEN {data[i + 1]}
        ELSE IF HasNaN(<<data[i], data[i + 1]>>) THEN {NaN}
        ELSE { Num(q) : q \in RoundDiv(data[i].u + data[i + 1].u, 2) }

RECURSIVE min(_)
\* min(a): the first element that no later one is `<`
min(a) ==
    IF Len(a) = 1 THEN a[1]
    ELSE LET m == min(SubSeq(a, 1, Len(a) - 1))
         IN  IF Less(a[Len(a)], m) THEN a[Len(a)] ELSE m

RECURSIVE max(_)
max(a) ==
    IF Len(a) = 1 THEN a[1]
    ELSE LET m == max(SubSeq(a, 1, Len(a) - 1))
         IN  IF Less(m, a[Len(a)]) THEN a[Len(a)] ELSE m

(***************************************************************************)
(* aggregate_metrics.py: parse_tte_generic                                 *)
(* A table is what csv.DictReader gives: the name of its duration column   *)
(* and its rows; a field is a str, or None where the row has no such field. *)
(***************************************************************************)
\* row.get(duration_field)
FieldOf(table, row, duration_field) ==
    IF table.column = duration_field THEN row.dur ELSE JNull

\* lines 57-61: the durations appended, in row order
Durations(table, duration_field) ==
    LET val == [n \in DOMAIN table.rows |->
                  float(Or(FieldOf(table, table.rows[n], duration_field), JStr(<<>>)).s)]
        parsed == SelectSeq(val, LAMBDA r : ~r.err)
    IN  [n \in DOMAIN parsed |-> parsed[n].v]

\* line 62: (row.get("status") or "").strip().upper()
StatusOf(row) == Upper(Strip(Or(row.status, JStr(<<>>)).s))

sPASS == <<"P","A","S","S">>

\* parse_tte_generic: the dicts it can return
parse_tte_generic(table, duration_field) ==
    LET durations == Durations(table, duration_field)
        counts == [ trials |-> Len(table.rows),
                    passes |-> Cardinality({n \in DOMAIN table.rows :
                                               StatusOf(table.rows[n]) = sPASS}),
                    fails |-> Cardinality({n \in DOMAIN table.rows :
                                              StatusOf(table.rows[n]) = sFAIL}) ]
    IN  IF durations # <<>>
        THEN { [ trials |-> counts.trials, passes |-> counts.passes, fails |-> counts.fails,
                 mean |-> mean_v, median |-> median_v,
                 min |-> min(durations), max |-> max(durations) ] :
               mean_v \in mean(durations), median_v \in median(durations) }
        ELSE { [ trials |-> counts.trials, passes |-> counts.passes, fails |-> counts.fails,
                 mean |-> None, median |-> None, min |-> None, max |-> None ] }

\* lines 88-95
parse_baseline_tte(table) == parse_tte_generic(table, "elapsed_seconds")
parse_improved_tte(table) == parse_tte_generic(table, "duration")

(***************************************************************************)
(* Timing tables given to parse_tte_generic.                               *)
(***************************************************************************)
DurationFields ==
    { JNull, JStr(<<>>), JStr(<<"a","b","c">>), JStr(<<"N","a","N">>),
      JStr(<<"0",".","1">>), JStr(<<" ","2",".","0"," ">>), JStr(<<"6",".","5">>) }

StatusFields == { JNull, JStr(sPASS), JStr(<<" ","f","a","i","l">>), JStr(<<"s","k","i","p">>) }

TteRows == { [dur |-> d, status |-> st] : d \in DurationFields, st \in StatusFields }

TteTables ==
    { [column |-> c, rows |-> rs] :
        c \in {"elapsed_seconds", "duration"}, rs \in SeqsUpTo(TteRows, MaxRows) }

InitTte ==
    /\ IdleNorm /\ IdleClassify /\ IdleParse /\ IdleScore /\ IdleRetest /\ IdleMetrics
    /\ tteTable \in TteTables
    /\ tteField = "-"
    /\ tteOut = NotRun

\* parse_baseline_tte(tteTable)
CallParseBaselineTte ==
    /\ tteOut = NotRun
    /\ tteField' = "elapsed_seconds"
    /\ \E r \in parse_baseline_tte(tteTable) : tteOut' = Ret(r)
    /\ UNCHANGED <<tteTable, notTte>>

\* parse_improved_tte(tteTable)
CallParseImprovedTte ==
    /\ tteOut = NotRun
    /\ tteField' = "duration"
    /\ \E r \in parse_improved_tte(tteTable) : tteOut' = Ret(r)
    /\ UNCHANGED <<tteTable, notTte>>

NextTte == CallParseBaselineTte \/ CallParseImprovedTte

SpecTte == InitTte /\ [][NextTte]_vars

TteDone == tteOut # NotRun

\* C17: a row whose duration field is missing or not numeric never aborts the table and
\* is left out of the statistics only: trials counts every row, passes and fails count
\* the rows by status, passes + fails <= trials, the samples number at most trials;
\* with at least one sample min <= median <= max and min <= mean <= max, with none all
\* four statistics are None.
C17_BadRowsSkipped ==
    TteDone =>
        LET out == tteOut.v
            samples == Durations(tteTable, tteField)
        IN  /\ ~tteOut.err
            /\ out.trials = Len(tteTable.rows)
            /\ out.passes = Cardinality({n \in DOMAIN tteTable.rows :
                                            StatusOf(tteTable.rows[n]) = sPASS})
            /\ out.fails = Cardinality({n \in DOMAIN tteTable.rows :
                                           StatusOf(tteTable.rows[n]) = sFAIL})
            /\ out.passes + out.fails <= out.trials
            /\ Len(samples) <= out.trials
            /\ Len(samples) >= 1 =>
                  /\ Leq(out.min, out.median) /\ Leq(out.median, out.max)
                  /\ Leq(out.min, out.mean) /\ Leq(out.mean, out.max)
            /\ Len(samples) = 0 =>
                  /\ out.mean = None /\ out.median = None
                  /\ out.min = None /\ out.max = None

(***************************************************************************)
(* aggregate_metrics.py: latest_file, parse_coverage_lcov,                 *)
(* parse_coverage_summary                                                  *)
(***************************************************************************)
\* a path glob returned: its modification time, whether it names a regular file, and
\* what the file holds
Path(mtime, isfile, content) == [mtime |-> mtime, isfile |-> isfile, content |-> content]
\* a path main kept: what it names
Located(path) == [t |-> "path", isfile |-> path.isfile, content |-> path.content]

\* latest_file: None without a match, else max(paths, key=os.path.getmtime), the first
\* of the paths of the greatest modification time
latest_file(paths) ==
    IF paths = <<>> THEN None
    ELSE Located(paths[CHOOSE i \in DOMAIN paths :
                          /\ \A j \in DOMAIN paths : paths[j].mtime <= paths[i].mtime
                          /\ \A j \in 1..(i - 1) : paths[j].mtime < paths[i].mtime])

\* `latest and os.path.isfile(latest)`
IsFile(latest) == latest # None /\ latest.isfile

\* line.startswith(prefix)
StartsWith(line, prefix) ==
    Len(line) >= Len(prefix) /\ SubSeq(line, 1, Len(prefix)) = prefix

\* int(text) for whitespace, an optional sign and digits; every other text raises
int(text) ==
    LET x == Strip(text)
        signed == x # <<>> /\ x[1] \in {"+", "-"}
        body == IF signed THEN Tail(x) ELSE x
    IN  IF body # <<>> /\ AllDigits(body)
        THEN Ret(IF signed /\ x[1] = "-" THEN 0 - IntOf(body) ELSE IntOf(body))
        ELSE Raise

RECURSIVE LcovTotal(_, _)
\* lines 140-150: the sum of the counts of the lines that start with the prefix ("LF:" or
\* "LH:"); a count int() rejects is passed over
LcovTotal(lines, prefix) ==
    IF lines = <<>> THEN 0
    ELSE LET line == Head(lines)
             n == int(SubSeq(line, Len(prefix) + 1, Len(line)))
         IN  (IF StartsWith(line, prefix) /\ ~n.err THEN n.v ELSE 0)
             + LcovTotal(Tail(lines), prefix)

LF == <<"L","F",":">>
LH == <<"L","H",":">>

\* parse_coverage_lcov on the lines of the trace: the values it can return.
\* round((total_lh / total_lf) * 100.0, 2) is a whole number of hundredths.
parse_coverage_lcov(lines) ==
    LET total_lf == LcovTotal(lines, LF)
        total_lh == LcovTotal(lines, LH)
    IN  IF total_lf > 0
        THEN { Num(h * 10000) : h \in RoundDiv(total_lh * 10000, total_lf) }
        ELSE { None }

RECURSIVE DigitsRun(_, _)
\* the length of the longest run of digits that starts at position j
DigitsRun(c, j) ==
    IF j <= Len(c) /\ IsDigit(c[j]) THEN 1 + DigitsRun(c, j + 1) ELSE 0

RECURSIVE SpaceRun(_, _)
\* the length of the longest run of whitespace that starts at position j
SpaceRun(c, j) ==
    IF j <= Len(c) /\ c[j] \in Whitespace THEN 1 + SpaceRun(c, j + 1) ELSE 0

\* ([0-9]+(?:\.[0-9]+)?)% matched at position j: the text of the group, <<>> if the
\* pattern does not match there
NumberAt(c, j) ==
    LET n1 == DigitsRun(c, j)
        n2 == IF j + n1 <= Len(c) /\ c[j + n1] = "." THEN DigitsRun(c, j + n1 + 1) ELSE 0
    IN  IF n1 = 0 THEN <<>>
        ELSE IF n2 > 0 /\ j + n1 + 1 + n2 <= Len(c) /\ c[j + n1 + 1 + n2] = "%"
             THEN SubSeq(c, j, j + n1 + n2)
        ELSE IF j + n1 <= Len(c) /\ c[j + n1] = "%" THEN SubSeq(c, j, j + n1 - 1)
        ELSE <<>>

\* the literal matched at position i, letter case ignored
LiteralAt(c, i, literal) ==
    /\ i + Len(literal) - 1 <= Len(c)
    /\ Lower(SubSeq(c, i, i + Len(literal) - 1)) = literal

\* <literal>\s*([0-9]+(?:\.[0-9]+)?)% matched at position i: the group, or <<>>
LabelledAt(c, i, literal) ==
    IF LiteralAt(c, i, literal)
    THEN NumberAt(c, i + Len(literal) + SpaceRun(c, i + Len(literal)))
    ELSE <<>>

\* Overall.*?([0-9]+(?:\.[0-9]+)?)% matched at position i: the group at the first
\* position after the literal, on the same line, where a number and "%" stand
OverallAt(c, i) ==
    LET literal == <<"o","v","e","r","a","l","l">>
        from == i + Len(literal)
        ends == { j \in from..Len(c) :
                    /\ NumberAt(c, j) # <<>>
                    /\ \A k \in from..(j - 1) : c[k] # "\n" }
    IN  IF LiteralAt(c, i, literal) /\ ends # {}
        THEN NumberAt(c, CHOOSE j \in ends : \A k \in ends : j <= k)
        ELSE <<>>

\* the four patterns of lines 112-117 matched at position i
PatternAt(c, i, k) ==
    CASE k = 1 -> LabelledAt(c, i, <<"s","t","a","t","e","m","e","n","t","s",":">>)
      [] k = 2 -> LabelledAt(c, i, <<"l","i","n","e","s",":">>)
      [] k = 3 -> LabelledAt(c, i, <<"c","o","v","e","r","a","g","e",":">>)
      [] k = 4 -> OverallAt(c, i)

\* re.search(patterns[k], content, flags=re.IGNORECASE): the group of the leftmost
\* match, <<>> without a match
Search(c, k) ==
    LET starts == { i \in 1..Len(c) : PatternAt(c, i, k) # <<>> }
    IN  IF starts = {} THEN <<>>
        ELSE PatternAt(c, CHOOSE i \in starts : \A j \in starts : i <= j, k)

\* parse_coverage_summary on the text of the summary: the float of the group of the
\* first pattern that matches, None if none does
parse_coverage_summary(content) ==
    LET hits == { k \in 1..4 : Search(content, k) # <<>> }
    IN  IF hits = {} THEN None
        ELSE float(Search(content, CHOOSE k \in hits : \A j \in hits : k <= j)).v

\* lines 188-196 with the text summary asked first
resolve_coverage_text_first(lcov, cov) ==
    LET first == IF IsFile(cov) THEN parse_coverage_summary(cov.content) ELSE None
    IN  IF first # None THEN { first }
        ELSE IF IsFile(lcov) THEN parse_coverage_lcov(lcov.content) ELSE { None }

\* lines 188-196: the values coverage_pct can get
resolve_coverage(lcov, cov) ==
    LET first == IF IsFile(lcov) THEN parse_coverage_lcov(lcov.content) ELSE { None }
    IN  { IF v # None THEN v
          ELSE IF IsFile(cov) THEN parse_coverage_summary(cov.content) ELSE None :
          v \in first }

(***************************************************************************)
(* aggregate_metrics.py: the resilience tag                                *)
(* b_med and i_med are doubles and ratio is their quotient rounded to a    *)
(* double. A double is kept as 53 bits, most significant first, and a      *)
(* power of two; whole numbers too large for an integer are bit strings.   *)
(***************************************************************************)
RECURSIVE BitsOf(_)
\* the bits of a natural number, without leading zeros
BitsOf(n) == IF n = 0 THEN <<>> ELSE BitsOf(n \div 2) \o <<n % 2>>

Zeros(n) == [i \in 1..n |-> 0]
\* x * 2^n
Shl(x, n) == x \o Zeros(n)

RECURSIVE Trim(_)
\* leading zeros removed
Trim(x) == IF x # <<>> /\ x[1] = 0 THEN Trim(Tail(x)) ELSE x

\* bits added at a time
Chunk == 24

RECURSIVE ValOf(_)
\* the number a short bit string stands for
ValOf(x) == IF x = <<>> THEN 0 ELSE 2 * ValOf(SubSeq(x, 1, Len(x) - 1)) + x[Len(x)]

\* the last n bits of x (all of x when it is shorter)
Low(x, n) == IF Len(x) <= n THEN x ELSE SubSeq(x, Len(x) - n + 1, Len(x))
\* x without its last n bits
High(x, n) == IF Len(x) <= n THEN <<>> ELSE SubSeq(x, 1, Len(x) - n)

RECURSIVE AddBits(_, _, _)
\* x + y + carry (leading zeros may remain)
AddBits(x, y, carry) ==
    IF x = <<>> /\ y = <<>> THEN (IF carry = 1 THEN <<1>> ELSE <<>>)
    ELSE LET t == ValOf(Low(x, Chunk)) + ValOf(Low(y, Chunk)) + carry
             low == BitsOf(t % (2 ^ Chunk))
         IN  IF t >= 2 ^ Chunk
             THEN AddBits(High(x, Chunk), High(y, Chunk), 1) \o Zeros(Chunk - Len(low)) \o low
             ELSE AddBits(High(x, Chunk), High(y, Chunk), 0) \o Zeros(Chunk - Len(low)) \o low

\* x >= y
GeqBits(x, y) ==
    LET a == Trim(x)
        b == Trim(y)
    IN  \/ Len(a) > Len(b)
        \/ /\ Len(a) = Len(b)
           /\ \/ a = b
              \/ \E i \in DOMAIN a : a[i] > b[i] /\ \A j \in 1..(i - 1) : a[j] = b[j]

RECURSIVE DivBits(_, _, _)
\* the bits of the quotient of (rem, followed by the bits x) by d, then the remainder
DivBits(x, d, rem) ==
    IF x = <<>> THEN <<rem>>
    ELSE IF Len(x) = 1 THEN <<(2 * rem + x[1]) \div d, (2 * rem + x[1]) % d>>
    ELSE LET h == Len(x) \div 2
             high == DivBits(SubSeq(x, 1, h), d, rem)
             low == DivBits(SubSeq(x, h + 1, Len(x)), d, high[h + 1])
         IN  SubSeq(high, 1, h) \o low

\* bits kept below the binary point when a decimal is turned into a double
Guard == 80

\* the double nearest to u millionths, u > 0 (round to nearest, ties to even)
Double(u) ==
    LET all == DivBits(Shl(BitsOf(u), Guard), Pow10(6), 0)
        quot == Trim(SubSeq(all, 1, Len(all) - 1))
        rem == all[Len(all)]
        top == SubSeq(quot, 1, 53)
        sticky == rem # 0 \/ \E i \in 55..Len(quot) : quot[i] = 1
        up == quot[54] = 1 /\ (sticky \/ top[53] = 1)
        m == IF up THEN Trim(AddBits(top, <<1>>, 0)) ELSE top
    IN  [ m |-> SubSeq(m, 1, 53),
          e |-> Len(quot) - 53 - Guard + (IF Len(m) > 53 THEN 1 ELSE 0) ]

\* i_med / b_med >= t for the doubles of i and b millionths, b > 0, and t = 3.0 (gap = 52)
\* or t = 2.0 (gap = 53): the quotient rounds to t or more exactly when it is not below
\* t - 2^-gap, half way between t and the double before it
RatioAtLeast(i, b, t, gap) ==
    IF i <= 0 THEN FALSE
    ELSE LET x == Double(i)
             y == Double(b)
             s == x.e - y.e + gap
             l == IF s < 0 THEN 0 - s ELSE 0
             ty == IF t = 3 THEN AddBits(y.m \o <<0>>, y.m, 0) ELSE y.m \o <<0>>
         IN  GeqBits(AddBits(Shl(x.m, s + l), Shl(y.m, l), 0), Shl(ty, gap + l))

\* lines 252-262: the tag
resilience_tag(b_med, i_med) ==
    IF b_med # None /\ i_med # None /\ b_med.t = "float" /\ b_med.u > 0
    THEN IF i_med.t = "float" /\ RatioAtLeast(i_med.u, b_med.u, 3, 52)
         THEN "High Resilience Gain"
         ELSE IF i_med.t = "float" /\ RatioAtLeast(i_med.u, b_med.u, 2, 53)
         THEN "Moderate Resilience Gain"
         ELSE "Low or None"
    ELSE "N/A"

(***************************************************************************)
(* Inputs of one metrics merge: the files that match the four patterns.    *)
(***************************************************************************)
t_0 == <<"0">>
t_0_1 == <<"0",".","1">>
t_0_2 == <<"0",".","2">>
t_0_3 == <<"0",".","3">>
t_2_0 == <<"2",".","0">>
t_6_5 == <<"6",".","5">>
t_minus_1 == <<"-","1",".","0">>

TimingRow(dur, status) == [dur |-> JStr(dur), status |-> JStr(status)]

\* the rows of the baseline tables a run finds
BaselineRowsets ==
    { <<>> }
    \cup { <<TimingRow(d, sPASS)>> : d \in { t_0, t_0_1, t_2_0, t_minus_1, <<"n","a","n">> } }

\* the rows of the improved tables a run finds
ImprovedRowsets ==
    { <<>>, <<TimingRow(t_6_5, sFAIL)>> }
    \cup { <<TimingRow(d, sPASS)>> : d \in { t_0_1, t_0_2, t_0_3, t_6_5 } }

BaselineTables == { [column |-> "elapsed_seconds", rows |-> rs] : rs \in BaselineRowsets }

ImprovedTables == { [column |-> "duration", rows |-> rs] : rs \in ImprovedRowsets }

\* coverage traces, as lists of lines
LcovTraces ==
    { << <<"L","F",":","8","0">>, <<"L","H",":","7","6">> >>,
      << <<"S","F",":","s","r","c","/","T","o","k","e","n",".","s","o","l">>, <<"L","F",":","3">>, <<"L","H",":","1">>, <<"e","n","d","_","o","f","_","r","e","c","o","r","d">> >>,
      << <<"L","F",":","0">>, <<"L","H",":","0">> >> }

txt_statements == <<"S","t","a","t","e","m","e","n","t","s",":"," ","9","1","%">>
txt_lines_then_statements == <<"L","i","n","e","s",":"," ","8","8","%","\n","S","t","a","t","e","m","e","n","t","s",":"," ","9","1","%">>

\* text summaries
CoverageTexts ==
    { txt_statements, txt_lines_then_statements,
      <<"c","o","v","e","r","a","g","e",":","7","7",".","5","%">>,
      <<"O","v","e","r","a","l","l"," ","l","i","n","e"," ","r","a","t","e"," ","i","s"," ","6","4","%">>,
      <<"n","o"," ","f","i","g","u","r","e","s">> }

\* the paths one pattern matches: regular files of two ages, and a directory
PathsOf(contents) ==
    { Path(mtime, TRUE, c) : mtime \in {1, 2}, c \in contents }
    \cup { Path(2, FALSE, CHOOSE c \in contents : TRUE) }

\* what glob can return for a pattern
Matches(contents) == SeqsUpTo(PathsOf(contents), MaxMatches)

(***************************************************************************)
(* aggregate_metrics.main                                                  *)
(***************************************************************************)
InitMetrics ==
    /\ IdleNorm /\ IdleClassify /\ IdleParse /\ IdleScore /\ IdleRetest /\ IdleTte
    /\ mpc = "latest_baseline"
    /\ latest_baseline = None /\ latest_improved = None
    /\ baseline = None /\ improved = None
    /\ latest_lcov = None /\ latest_cov = None /\ coverage_pct = None
    /\ csvRows = <<>> /\ tag = "-" /\ mExit = -1

\* line 168
LatestBaseline ==
    /\ mpc = "latest_baseline"
    /\ \E paths \in Matches(BaselineTables) : latest_baseline' = latest_file(paths)
    /\ mpc' = "latest_improved"
    /\ UNCHANGED <<latest_improved, baseline, improved, latest_lcov, latest_cov,
                   coverage_pct, csvRows, tag, mExit, notMetrics>>

\* line 169
LatestImproved ==
    /\ mpc = "latest_improved"
    /\ \E paths \in Matches(ImprovedTables) : latest_improved' = latest_file(paths)
    /\ mpc' = "latest_cov"
    /\ UNCHANGED <<latest_baseline, baseline, improved, latest_lcov, latest_cov,
                   coverage_pct, csvRows, tag, mExit, notMetrics>>

\* line 170
LatestCov ==
    /\ mpc = "latest_cov"
    /\ \E paths \in Matches(CoverageTexts) : latest_cov' = latest_file(paths)
    /\ mpc' = "latest_lcov"
    /\ UNCHANGED <<latest_baseline, latest_improved, baseline, improved, latest_lcov,
                   coverage_pct, csvRows, tag, mExit, notMetrics>>

\* line 171
LatestLcov ==
    /\ mpc = "latest_lcov"
    /\ \E paths \in Matches(LcovTraces) : latest_lcov' = latest_file(paths)
    /\ mpc' = "parse"
    /\ UNCHANGED <<latest_baseline, latest_improved, baseline, improved, latest_cov,
                   coverage_pct, csvRows, tag, mExit, notMetrics>>

\* lines 173-174
DefaultStats == [median |-> None, trials |-> 0, passes |-> 0, fails |-> 0]

\* lines 173-186: the two dicts, updated with the statistics of the tables found
ParseTte ==
    /\ mpc = "parse"
    /\ IF IsFile(latest_baseline)
       THEN \E stats_b \in parse_baseline_tte(latest_baseline.content) : baseline' = stats_b
       ELSE baseline' = DefaultStats
    /\ IF IsFile(latest_improved)
       THEN \E stats_i \in parse_improved_tte(latest_improved.content) : improved' = stats_i
       ELSE improved' = DefaultStats
    /\ mpc' = "coverage"
    /\ UNCHANGED <<latest_baseline, latest_improved, latest_lcov, latest_cov,
                   coverage_pct, csvRows, tag, mExit, notMetrics>>

\* lines 188-196
ResolveCoverage ==
    /\ mpc = "coverage"
    /\ coverage_pct' \in resolve_coverage(latest_lcov, latest_cov)
    /\ mpc' = "rows"
    /\ UNCHANGED <<latest_baseline, latest_improved, baseline, improved, latest_lcov,
                   latest_cov, csvRows, tag, mExit, notMetrics>>

\* "" if v is None else v
Cell(v) == IF v = None THEN JStr(<<>>) ELSE v

\* a note that calls the contract secure only after at least one trial
notes_i_needs_trials(stats) ==
    IF stats.fails = 0 /\ stats.trials > 0 THEN "Improved secure - no overwrite detected"
    ELSE "Improved reported failures"

\* lines 211-215
notes_i(stats) ==
    IF stats.fails = 0 THEN "Improved secure - no overwrite detected"
    ELSE "Improved reported failures"

\* lines 198-236: the two rows of metrics_summary.csv (without the time of the run)
WriteRows ==
    /\ mpc = "rows"
    /\ csvRows' =
         << [ contract |-> "ShipmentSegmentAcceptance (Baseline)",
              median_tte_s |-> Cell(baseline.median),
              coverage_pct |-> Cell(coverage_pct),
              notes |-> "Baseline vulnerable" ],
            [ contract |-> "ShipmentSegmentAcceptanceImproved",
              median_tte_s |-> Cell(improved.median),
              coverage_pct |-> Cell(coverage_pct),
              notes |-> notes_i(improved) ] >>
    /\ mpc' = "analysis"
    /\ UNCHANGED <<latest_baseline, latest_improved, baseline, improved, latest_lcov,
                   latest_cov, coverage_pct, tag, mExit, notMetrics>>

\* lines 238-267: the comparison table and the tag
Analysis ==
    /\ mpc = "analysis"
    /\ tag' = resilience_tag(baseline.median, improved.median)
    /\ mpc' = "readme"
    /\ UNCHANGED <<latest_baseline, latest_improved, baseline, improved, latest_lcov,
                   latest_cov, coverage_pct, csvRows, mExit, notMetrics>>

\* lines 269-351: the README summary and the gas analysis (which reads test_results_*.csv
\* and writes gas_summary.csv, inside a try block); main returns 0
Readme ==
    /\ mpc = "readme"
    /\ mExit' = 0
    /\ mpc' = "done"
    /\ UNCHANGED <<latest_baseline, latest_improved, baseline, improved, latest_lcov,
                   latest_cov, coverage_pct, csvRows, tag, notMetrics>>

NextMetrics ==
    \/ LatestBaseline \/ LatestImproved \/ LatestCov \/ LatestLcov
    \/ ParseTte \/ ResolveCoverage \/ WriteRows \/ Analysis \/ Readme

SpecMetrics == InitMetrics /\ [][NextMetrics]_vars

\* C13: the tag depends on the two medians only: "N/A" when a median is missing or the
\* baseline median is zero or negative; otherwise, with ratio = improved median /
\* baseline median, "High Resilience Gain" when ratio >= 3 (3 included), "Moderate
\* Resilience Gain" when 2 <= ratio < 3 (2 included), "Low or None" for every smaller
\* ratio; medians 2.0 and 6.5 give "High Resilience Gain".
C13_ResilienceTag ==
    tag # "-" =>
        LET b == baseline.median
            i == improved.median
        IN  /\ (b = None \/ i = None \/ (b.t = "float" /\ b.u <= 0)) => tag = "N/A"
            /\ (b.t = "float" /\ b.u > 0 /\ i.t = "float") =>
                  /\ i.u >= 3 * b.u => tag = "High Resilience Gain"
                  /\ (2 * b.u <= i.u /\ i.u < 3 * b.u) => tag = "Moderate Resilience Gain"
                  /\ i.u < 2 * b.u => tag = "Low or None"
            /\ (b = Num(2000000) /\ i = Num(6500000)) => tag = "High Resilience Gain"

CoverageResolved == mpc \in {"rows", "analysis", "readme", "done"}
\* a coverage trace is there and counts at least one line
TraceUsable == IsFile(latest_lcov) /\ LcovTotal(latest_lcov.content, LF) > 0
\* the first of the patterns Statements, Lines, Coverage, Overall that matches somewhere
FirstPattern(text) ==
    CHOOSE k \in 1..4 : Search(text, k) # <<>> /\ \A j \in 1..(k - 1) : Search(text, j) = <<>>

\* C14: with a coverage trace whose total LF is positive the coverage is the percentage
\* sum of LH / sum of LF * 100 (to the nearest hundredth), whatever the text summary
\* says; without a trace or with total LF 0 it is the figure of the text summary: the one
\* of the first of the patterns Statements, Lines, Coverage, Overall that matches anywhere
\* in the text, None if there is no summary or no match; both rows carry that value.
\* LF=80, LH=76 give 95.0; the text "Statements: 91%" without a trace gives 91.0.
C14_CoverageResolution ==
    CoverageResolved =>
        /\ TraceUsable =>
              LET total_lf == LcovTotal(latest_lcov.content, LF)
                  total_lh == LcovTotal(latest_lcov.content, LH)
                  off == (coverage_pct.u \div 10000) * total_lf - 10000 * total_lh
              IN  /\ coverage_pct.t = "float"
                  /\ coverage_pct.u % 10000 = 0
                  /\ 2 * (IF off < 0 THEN 0 - off ELSE off) <= total_lf
        /\ ~TraceUsable =>
              coverage_pct =
                  IF IsFile(latest_cov) /\ \E k \in 1..4 : Search(latest_cov.content, k) # <<>>
                  THEN float(Search(latest_cov.content, FirstPattern(latest_cov.content))).v
                  ELSE None
        /\ csvRows # <<>> =>
              /\ csvRows[1].coverage_pct = csvRows[2].coverage_pct
              /\ csvRows[1].coverage_pct =
                    IF coverage_pct = None THEN JStr(<<>>) ELSE coverage_pct
        /\ (IsFile(latest_lcov) /\ latest_lcov.content = << <<"L","F",":","8","0">>, <<"L","H",":","7","6">> >>)
              => coverage_pct = Num(95000000)
        /\ (~IsFile(latest_lcov) /\ IsFile(latest_cov) /\ latest_cov.content = txt_statements)
              => coverage_pct = Num(91000000)
        /\ (~TraceUsable /\ IsFile(latest_cov)
              /\ latest_cov.content = txt_lines_then_statements)
              => coverage_pct = Num(91000000)

\* the rows of a run that found a trace of three lines, one of them hit, next to a text
\* summary of 91%
C14_Witness ==
    /\ csvRows # <<>>
    /\ TraceUsable
    /\ LcovTotal(latest_lcov.content, LF) = 3
    /\ LcovTotal(latest_lcov.content, LH) = 1
    /\ IsFile(latest_cov) /\ latest_cov.content = txt_statements
    /\ coverage_pct = Num(33330000)
    /\ csvRows[2].coverage_pct = Num(33330000)

\* the improved timing table is missing (no match, or the newest match is no regular file)
\* or has no rows
NoImprovedTrials == ~IsFile(latest_improved) \/ latest_improved.content.rows = <<>>

\* C21: in the written rows the note of the improved row is "Improved secure - no
\* overwrite detected" (the source writes an en dash) exactly when the improved fail
\* count is 0 and "Improved reported failures" otherwise; the fail count of a missing
\* table is 0, so with the improved table missing or without rows the note is the
\* "secure" one, and the median cell of that row is the empty string.
C21_ImprovedNote ==
    csvRows # <<>> =>
        /\ improved.fails = 0
              <=> csvRows[2].notes = "Improved secure - no overwrite detected"
        /\ improved.fails # 0 <=> csvRows[2].notes = "Improved reported failures"
        /\ ~IsFile(latest_improved) => improved.fails = 0
        /\ NoImprovedTrials =>
              /\ csvRows[2].notes = "Improved secure - no overwrite detected"
              /\ csvRows[2].median_tte_s = JStr(<<>>)

\* the rows of a run that found no improved timing table, next to a baseline table with
\* a median
C21_Witness ==
    /\ csvRows # <<>>
    /\ latest_improved = None
    /\ IsFile(latest_baseline) /\ csvRows[1].median_tte_s # JStr(<<>>)
    /\ csvRows[2].notes = "Improved secure - no overwrite detected"
    /\ csvRows[2].median_tte_s = JStr(<<>>)

\* the rows of a run whose improved table holds a failed trial
C21_FailureNoted ==
    /\ csvRows # <<>>
    /\ IsFile(latest_improved)
    /\ improved.fails = 1
    /\ csvRows[2].notes = "Improved reported failures"
====
